---- MODULE Spec2Model ----
(***************************************************************************)
(* Node-local reconciliation engine of the cluster maintenance             *)
(* (arangod/Cluster/Maintenance.cpp): diffPlanLocal, reportInCurrent and   *)
(* syncReplicatedShardsWithLeaders as operators over Plan / Local /        *)
(* Current documents.  Objects are functions from attribute names, arrays  *)
(* are sequences, an object is walked in the byte order of its keys.       *)
(***************************************************************************)
EXTENDS Naturals, Integers, Sequences, FiniteSets, TLC

VARIABLES plan, local, current, serverId, vocbases, actions, report, pc, passNo,
          queue, log, nodes, runs, conn

vars == <<plan, local, current, serverId, vocbases, actions, report, pc, passNo,
         queue, log, nodes, runs, conn>>

\* the value of conn where no VstConnection is modelled
NoConnection == <<>>

(***************************************************************************)
(* Bounds of the model.                                                    *)
(***************************************************************************)
\* longest planned / reported server list
MaxServers == 2
\* number of diffPlanLocal passes that are run and applied in a row
MaxRuns == 2
MaxPasses == 4

(***************************************************************************)
(* String constants of the source.                                         *)
(***************************************************************************)
\* variant: replicationFactor is compared as well
cmp_WithReplicationFactor ==
  <<"journalSize", "waitForSync", "doCompact", "indexBuckets", "replicationFactor">>
cmp == <<"journalSize", "waitForSync", "doCompact", "indexBuckets">>
CURRENT_COLLECTIONS == "Current/Collections/"
CURRENT_DATABASES == "Current/Databases/"
ERROR_MESSAGE == "errorMessage"
ERROR_NUM == "errorNum"
ERROR == "error"
PLAN_ID == "planId"
PRIMARY == "primary"
SERVERS == "servers"
SELECTIVITY_ESTIMATE == "selectivityEstimate"
COLLECTIONS == "Collections"
VP_DELETE == "delete"
VP_SET == "set"
UNDERSCORE == "_"
\* attribute names declared with ActionDescription
EDGE == "edge"
LEADER == "leader"
INDEXES == "indexes"
SHARDS == "shards"
FIELDS == "fields"
TYPE == "type"
ID == "id"
NAME == "name"

(***************************************************************************)
(* Universe of names.  KeyOrder lists every attribute name that is         *)
(* iterated, in byte order ('_' sorts before the lower-case letters).      *)
(***************************************************************************)
ServerIds == {"A", "B"}
KeyOrder == <<"_s2", "c1", "c2", "d1", "d2", "s1", "s2">>
NameTails == {"A", "B", "s2"}

Range(s) == {s[i] : i \in 1..Len(s)}

Keys(obj) == SelectSeq(KeyOrder, LAMBDA k : k \in DOMAIN obj)

HasKey(obj, k) == k \in DOMAIN obj

RECURSIVE Flatten(_)
Flatten(ss) == IF ss = <<>> THEN <<>> ELSE Head(ss) \o Flatten(Tail(ss))

\* std::string::front() == '_'
FrontIsUnderscore(s) == \E t \in NameTails : s = UNDERSCORE \o t

EmptyObject == [k \in {} |-> 0]

(***************************************************************************)
(* VPackNormalizedCompare::equals (velocypack, not part of the sources     *)
(* at hand): a comparison of values that is independent of the order in    *)
(* which members are stored.                                               *)
(***************************************************************************)
NormalizedEqualsArray(a, b) == Range(a) = Range(b)

NormalizedEqualsIndex(x, y) ==
  /\ DOMAIN x = DOMAIN y
  /\ \A k \in DOMAIN x :
       IF k = FIELDS THEN NormalizedEqualsArray(x[k], y[k]) ELSE x[k] = y[k]

NormalizedEqualsIndexes(a, b) ==
  /\ \A i \in 1..Len(a) : \E j \in 1..Len(b) : NormalizedEqualsIndex(a[i], b[j])
  /\ \A j \in 1..Len(b) : \E i \in 1..Len(a) : NormalizedEqualsIndex(a[i], b[j])

\* Slice::toJson of an array of strings
RECURSIVE JoinJson(_)
JoinJson(a) ==
  IF a = <<>> THEN ""
  ELSE "\"" \o Head(a) \o "\"" \o (IF Tail(a) = <<>> THEN "" ELSE ",") \o JoinJson(Tail(a))

toJson(a) == "[" \o JoinJson(a) \o "]"

(***************************************************************************)
(* Plan vs Local: the DiffEngine.                                          *)
(***************************************************************************)
createProps(s) == [k \in DOMAIN s \ {ID, NAME} |-> s[k]]

\* variant: registers the local value of a changed property
compareRelevantProps_LocalValue(first, second) ==
  LET changed == {p \in Range(cmp) : first[p] # second[p]}
  IN  [p \in changed |-> second[p]]

compareRelevantProps(first, second) ==
  LET changed == {p \in Range(cmp) : first[p] # second[p]}
  IN  [p \in changed |-> first[p]]

\* variant: the scan of the local indexes ends at the first primary or edge index
IndexFound_BreakOnSystem(pindex, lindexes) ==
  \E i \in 1..Len(lindexes) :
     /\ \A j \in 1..i : lindexes[j][TYPE] \notin {PRIMARY, EDGE}
     /\ NormalizedEqualsArray(pindex[FIELDS], lindexes[i][FIELDS])
     /\ pindex[TYPE] = lindexes[i][TYPE]

\* One planned index against the local index array: is it already there?
IndexFound(pindex, lindexes) ==
  \E i \in 1..Len(lindexes) :
     /\ lindexes[i][TYPE] \notin {PRIMARY, EDGE}
     /\ NormalizedEqualsArray(pindex[FIELDS], lindexes[i][FIELDS])
     /\ pindex[TYPE] = lindexes[i][TYPE]

\* variant: the identity recorded is the index id without the shard name
compareIndexes_BareId(shname, pindexes, lindexes, indis) ==
  LET diffed == SelectSeq(pindexes, LAMBDA p : p[TYPE] \notin {PRIMARY, EDGE})
  IN  [difference |-> SelectSeq(diffed, LAMBDA p : ~IndexFound(p, lindexes)),
       indis      |-> indis \union {diffed[i][ID] : i \in 1..Len(diffed)}]

\* result: the planned indexes to ensure, and the grown index-membership set
compareIndexes(shname, pindexes, lindexes, indis) ==
  LET diffed == SelectSeq(pindexes, LAMBDA p : p[TYPE] \notin {PRIMARY, EDGE})
  IN  [difference |-> SelectSeq(diffed, LAMBDA p : ~IndexFound(p, lindexes)),
       indis      |-> indis \union {shname \o "/" \o diffed[i][ID] : i \in 1..Len(diffed)}]

\* variant: the two branches of the LEADER parameter swapped
leaderParam_Swapped(shouldBeLeading, leaderId) == IF shouldBeLeading THEN leaderId ELSE ""

\* the LEADER parameter of UpdateCollection and CreateCollection
leaderParam(shouldBeLeading, leaderId) == IF shouldBeLeading THEN "" ELSE leaderId

\* st = [colis, indis, actions]: the two membership sets and the action list
handlePlanShard(st, db, cprops, ldb, dbname, colname, shname, sid, leaderId) ==
  LET shouldBeLeading == sid = leaderId
      newLeader == leaderParam(shouldBeLeading, leaderId)
  IN
  IF db # sid THEN st
  ELSE
    IF HasKey(ldb, shname) THEN
      LET lcol == ldb[shname]
          leading == lcol[LEADER] = ""
          properties == compareRelevantProps(cprops, lcol)
          update ==
            IF properties # EmptyObject \/ leading # shouldBeLeading
            THEN << [name |-> "UpdateCollection", database |-> dbname,
                     collection |-> shname, leader |-> newLeader,
                     localLeader |-> lcol[LEADER], properties |-> properties] >>
            ELSE <<>>
          cmpix == IF HasKey(cprops, INDEXES)
                   THEN compareIndexes(shname, cprops[INDEXES], lcol[INDEXES], st.indis)
                   ELSE [difference |-> <<>>, indis |-> st.indis]
          ensure == [i \in 1..Len(cmpix.difference) |->
                       [name |-> "EnsureIndex", collection |-> shname,
                        database |-> dbname,
                        type |-> cmpix.difference[i][TYPE],
                        fields |-> toJson(cmpix.difference[i][FIELDS]),
                        properties |-> cmpix.difference[i]]]
      IN  [colis   |-> st.colis \union {shname},
           indis   |-> cmpix.indis,
           actions |-> st.actions \o update \o ensure]
    ELSE
      [colis   |-> st.colis \union {shname},
       indis   |-> st.indis,
       actions |-> Append(st.actions,
                     [name |-> "CreateCollection", collection |-> colname,
                      shard |-> shname, database |-> dbname,
                      leader |-> newLeader, properties |-> createProps(cprops)])]

\* the DropIndex actions of one kept local shard, and the index-membership set
RECURSIVE dropIndexes(_, _, _, _)
dropIndexes(st, dbname, colname, lindexes) ==
  IF lindexes = <<>> THEN st
  ELSE
    LET index == Head(lindexes)
        id == index[ID]
        next ==
          IF index[TYPE] \in {PRIMARY, EDGE} THEN st
          ELSE IF (colname \o "/" \o id) \in st.indis
               THEN [st EXCEPT !.indis = @ \ {id}]
               ELSE [st EXCEPT !.actions = Append(@,
                       [name |-> "DropIndex", database |-> dbname,
                        collection |-> colname, index |-> id])]
    IN  dropIndexes(next, dbname, colname, Tail(lindexes))

\* variant: resignation without looking at the local leader field
mustResign_AnyLocalLeader(plannedLeader, sid, localLeader) ==
  plannedLeader = UNDERSCORE \o sid

\* the resignation check of handleLocalShard
mustResign(plannedLeader, sid, localLeader) ==
  plannedLeader = UNDERSCORE \o sid /\ localLeader

\* variant: a shard found in the membership set is dropped
isExtraneous_Found(colis, colname) == colis = {} \/ colname \in colis

\* the drop decision of handleLocalShard
isExtraneous(colis, colname) == colis = {} \/ colname \notin colis

\* variant: after the resignation the shard is processed further
handleLocalShard_ResignAndGoOn(st, dbname, colname, cprops, shardMap, sid) ==
  LET plannedLeader ==
        IF HasKey(shardMap, colname) THEN shardMap[colname][1] ELSE ""
      localLeader == cprops[LEADER] = ""
      resigned ==
        IF mustResign(plannedLeader, sid, localLeader)
        THEN [st EXCEPT !.actions = Append(@,
                [name |-> "ResignShardLeadership", database |-> dbname, shard |-> colname])]
        ELSE st
  IN  IF isExtraneous(st.colis, colname)
      THEN [resigned EXCEPT !.actions = Append(@,
              [name |-> "DropCollection", database |-> dbname, collection |-> colname])]
      ELSE resigned

handleLocalShard(st, dbname, colname, cprops, shardMap, sid) ==
  LET plannedLeader ==
        IF HasKey(shardMap, colname) THEN shardMap[colname][1] ELSE ""
      localLeader == cprops[LEADER] = ""
      drop == isExtraneous(st.colis, colname)
  IN
  IF mustResign(plannedLeader, sid, localLeader)
  THEN [st EXCEPT !.actions = Append(@,
          [name |-> "ResignShardLeadership", database |-> dbname, shard |-> colname])]
  ELSE IF drop
  THEN [st EXCEPT !.actions = Append(@,
          [name |-> "DropCollection", database |-> dbname, collection |-> colname])]
  ELSE
    LET erased == [st EXCEPT !.colis = @ \ {colname}]
    IN  IF HasKey(cprops, INDEXES)
        THEN dropIndexes(erased, dbname, colname, cprops[INDEXES])
        ELSE erased

\* shard name -> planned server list, over Plan/Collections
getShardMap(pdbs) ==
  LET placed == {<<d, c, s>> \in (DOMAIN pdbs) \X Range(KeyOrder) \X Range(KeyOrder) :
                   /\ c \in DOMAIN pdbs[d]
                   /\ s \in DOMAIN pdbs[d][c][SHARDS]}
      names == {t[3] : t \in placed}
  IN  [s \in names |->
         LET t == CHOOSE t \in placed : t[3] = s IN pdbs[t[1]][t[2]][SHARDS][s]]

\* the calls of the Plan pass (lines 304-325), in iteration order
planPassCalls(pdbs, loc) ==
  LET dbs == Keys(pdbs)
      shardCalls(d, c, s) ==
        LET servers == pdbs[d][c][SHARDS][s]
        IN  [m \in 1..Len(servers) |->
               [call |-> "handlePlanShard", db |-> servers[m], dbname |-> d,
                colname |-> c, shname |-> s, leaderId |-> servers[1]]]
      colCalls(d, c) ==
        LET shs == Keys(pdbs[d][c][SHARDS])
        IN  Flatten([k \in 1..Len(shs) |-> shardCalls(d, c, shs[k])])
      dbCalls(d) ==
        IF HasKey(loc, d)
        THEN LET cols == Keys(pdbs[d])
             IN  Flatten([j \in 1..Len(cols) |-> colCalls(d, cols[j])])
        ELSE << [call |-> "CreateDatabase", dbname |-> d] >>
  IN  Flatten([i \in 1..Len(dbs) |-> dbCalls(dbs[i])])

RECURSIVE planPass(_, _, _, _, _)
planPass(st, calls, pdbs, loc, sid) ==
  IF calls = <<>> THEN st
  ELSE
    LET c == Head(calls)
        next ==
          IF c.call = "CreateDatabase"
          THEN [st EXCEPT !.actions = Append(@,
                  [name |-> "CreateDatabase", database |-> c.dbname])]
          ELSE handlePlanShard(st, c.db, pdbs[c.dbname][c.colname], loc[c.dbname],
                               c.dbname, c.colname, c.shname, sid, c.leaderId)
    IN  planPass(next, Tail(calls), pdbs, loc, sid)

\* variant: the Local pass visits only the shards this node follows
localPassCalls_Followed(pdbs, loc) ==
  LET dbs == SelectSeq(Keys(loc), LAMBDA d : HasKey(pdbs, d))
      dbCalls(d) ==
        LET shs == SelectSeq(Keys(loc[d]),
                             LAMBDA n : ~FrontIsUnderscore(n) /\ loc[d][n][LEADER] # "")
        IN  [k \in 1..Len(shs) |-> [dbname |-> d, shName |-> shs[k]]]
  IN  Flatten([i \in 1..Len(dbs) |-> dbCalls(dbs[i])])

\* the handleLocalShard calls of the Local pass (lines 329-340), in order
localPassCalls(pdbs, loc) ==
  LET dbs == SelectSeq(Keys(loc), LAMBDA d : HasKey(pdbs, d))
      dbCalls(d) ==
        LET shs == SelectSeq(Keys(loc[d]), LAMBDA n : ~FrontIsUnderscore(n))
        IN  [k \in 1..Len(shs) |-> [dbname |-> d, shName |-> shs[k]]]
  IN  Flatten([i \in 1..Len(dbs) |-> dbCalls(dbs[i])])

RECURSIVE localPass(_, _, _, _, _)
localPass(st, calls, loc, shardMap, sid) ==
  IF calls = <<>> THEN st
  ELSE
    LET c == Head(calls)
    IN  localPass(handleLocalShard(st, c.dbname, c.shName, loc[c.dbname][c.shName],
                                   shardMap, sid),
                  Tail(calls), loc, shardMap, sid)

\* variant: the actions of the Local pass stand before those of the Plan pass
diffPlanLocalState_LocalFirst(pl, loc, sid) ==
  LET planned == Keys(pl["Databases"])
      held == Keys(loc)
      create == SelectSeq(planned, LAMBDA d : ~HasKey(loc, d))
      dropped == SelectSeq(held, LAMBDA d : ~HasKey(pl["Databases"], d))
      dbActions ==
        [i \in 1..Len(create) |-> [name |-> "CreateDatabase", database |-> create[i]]]
        \o [i \in 1..Len(dropped) |-> [name |-> "DropDatabase", database |-> dropped[i]]]
      pdbs == pl[COLLECTIONS]
      afterPlan == planPass([colis |-> {}, indis |-> {}, actions |-> dbActions],
                            planPassCalls(pdbs, loc), pdbs, loc, sid)
      afterLocal == localPass([afterPlan EXCEPT !.actions = <<>>],
                              localPassCalls(pdbs, loc), loc, getShardMap(pdbs), sid)
  IN  [afterLocal EXCEPT !.actions = @ \o afterPlan.actions]

\* the final state [colis, indis, actions] of one diffPlanLocal call
diffPlanLocalState(pl, loc, sid) ==
  LET planned == Keys(pl["Databases"])
      held == Keys(loc)
      create == SelectSeq(planned, LAMBDA d : ~HasKey(loc, d))
      dropped == SelectSeq(held, LAMBDA d : ~HasKey(pl["Databases"], d))
      dbActions ==
        [i \in 1..Len(create) |-> [name |-> "CreateDatabase", database |-> create[i]]]
        \o [i \in 1..Len(dropped) |-> [name |-> "DropDatabase", database |-> dropped[i]]]
      pdbs == pl[COLLECTIONS]
      afterPlan == planPass([colis |-> {}, indis |-> {}, actions |-> dbActions],
                            planPassCalls(pdbs, loc), pdbs, loc, sid)
  IN  localPass(afterPlan, localPassCalls(pdbs, loc), loc, getShardMap(pdbs), sid)

diffPlanLocal(pl, loc, sid) == diffPlanLocalState(pl, loc, sid).actions

(***************************************************************************)
(* The action executor (an external collaborator): what one action does    *)
(* to Local once it has run.                                               *)
(***************************************************************************)
ResignedLeader(sid) == UNDERSCORE \o sid

Without(obj, k) == [x \in DOMAIN obj \ {k} |-> obj[x]]

With(obj, k, v) == [x \in DOMAIN obj \union {k} |-> IF x = k THEN v ELSE obj[x]]

HasShard(loc, d, s) == HasKey(loc, d) /\ HasKey(loc[d], s)

applyAction(loc, a, sid) ==
  CASE a.name = "CreateDatabase" ->
         IF HasKey(loc, a.database) THEN loc ELSE With(loc, a.database, EmptyObject)
    [] a.name = "DropDatabase" -> Without(loc, a.database)
    [] a.name = "CreateCollection" ->
         IF HasKey(loc, a.database) /\ ~HasKey(loc[a.database], a.shard)
         THEN LET made == [k \in (DOMAIN a.properties \ {SHARDS}) \union {PLAN_ID, LEADER} |->
                             IF k = PLAN_ID THEN a.collection
                             ELSE IF k = LEADER THEN a.leader
                             ELSE a.properties[k]]
              IN  With(loc, a.database, With(loc[a.database], a.shard, made))
         ELSE loc
    [] a.name = "UpdateCollection" ->
         IF HasShard(loc, a.database, a.collection)
         THEN LET old == loc[a.database][a.collection]
                  new == [k \in DOMAIN old |->
                            IF k = LEADER THEN a.leader
                            ELSE IF k \in DOMAIN a.properties THEN a.properties[k]
                            ELSE old[k]]
              IN  With(loc, a.database, With(loc[a.database], a.collection, new))
         ELSE loc
    [] a.name = "EnsureIndex" ->
         IF HasShard(loc, a.database, a.collection)
         THEN LET old == loc[a.database][a.collection]
                  new == IF IndexFound(a.properties, old[INDEXES]) THEN old
                         ELSE [old EXCEPT ![INDEXES] = Append(@, a.properties)]
              IN  With(loc, a.database, With(loc[a.database], a.collection, new))
         ELSE loc
    [] a.name = "DropIndex" ->
         IF HasShard(loc, a.database, a.collection)
         THEN LET old == loc[a.database][a.collection]
                  new == [old EXCEPT ![INDEXES] =
                            SelectSeq(@, LAMBDA ix : ix[ID] # a.index)]
              IN  With(loc, a.database, With(loc[a.database], a.collection, new))
         ELSE loc
    [] a.name = "DropCollection" ->
         IF HasShard(loc, a.database, a.collection)
         THEN With(loc, a.database, Without(loc[a.database], a.collection))
         ELSE loc
    [] a.name = "ResignShardLeadership" ->
         IF HasShard(loc, a.database, a.shard)
         THEN LET old == loc[a.database][a.shard]
              IN  With(loc, a.database,
                       With(loc[a.database], a.shard, [old EXCEPT ![LEADER] = ResignedLeader(sid)]))
         ELSE loc
    [] OTHER -> loc

RECURSIVE applyActions(_, _, _)
applyActions(loc, as, sid) ==
  IF as = <<>> THEN loc
  ELSE applyActions(applyAction(loc, Head(as), sid), Tail(as), sid)

(***************************************************************************)
(* Input documents of the model.                                           *)
(***************************************************************************)
DBs == {"d1", "d2"}

Other(sid) == CHOOSE o \in ServerIds : o # sid

\* what a server list may hold, seen from server sid: itself, the other
\* server, and itself marked as resigning
ServerEntries(sid) == {sid, Other(sid), UNDERSCORE \o sid}

ServerLists(sid) == UNION {[1..n -> ServerEntries(sid)] : n \in 1..MaxServers}

BystanderLists(sid) == {<<sid>>, <<Other(sid), sid>>, <<Other(sid)>>}

IxPrimary == [id |-> "0", type |-> PRIMARY, fields |-> <<"_key">>]
IxHashXY == [id |-> "1", type |-> "hash", fields |-> <<"x", "y">>]
IxHashYX == [id |-> "2", type |-> "hash", fields |-> <<"y", "x">>]
IxSkipXY == [id |-> "3", type |-> "skiplist", fields |-> <<"x", "y">>]
IxHashX == [id |-> "4", type |-> "hash", fields |-> <<"x">>]

PlanIndexLists == {<<IxPrimary>>, <<IxPrimary, IxHashXY>>}
LocalIndexLists == {<<IxPrimary>>, <<IxPrimary, IxHashXY>>, <<IxPrimary, IxHashYX>>}

PlanCollection(ixs, shards) ==
  [id |-> "1001", name |-> "coll", journalSize |-> 1, waitForSync |-> FALSE,
   doCompact |-> TRUE, indexBuckets |-> 8, replicationFactor |-> 2,
   shards |-> shards, indexes |-> ixs]

LocalShard(planId, leader, js, ixs) ==
  [planId |-> planId, leader |-> leader, journalSize |-> js, waitForSync |-> FALSE,
   doCompact |-> TRUE, indexBuckets |-> 8, replicationFactor |-> 2, indexes |-> ixs]

Absent == [present |-> FALSE]

PlanDoc(pd, cols) ==
  [Databases |-> [d \in pd |-> [name |-> d]],
   Collections |-> [d \in pd |-> cols[d]],
   Version |-> 1]

EmptyCurrent == [Databases |-> EmptyObject, Collections |-> EmptyObject, Version |-> 1]

\* Plan and Local of one node: database d1 with collection c1 and up to two
\* shards (the second one possibly a system shard), database d2 without
\* collections
DiffInputs(sid) ==
  {[plan |-> PlanDoc(pd, [d \in DBs |->
                IF d = "d1"
                THEN [c \in {"c1"} |-> PlanCollection(pix,
                        [s \in {n \in {"s1", s2n} :
                                  (IF n = "s1" THEN p1 ELSE p2).present} |->
                           (IF s = "s1" THEN p1 ELSE p2).servers])]
                ELSE EmptyObject]),
    local |-> [d \in ld |->
                IF d = "d1"
                THEN [s \in {n \in {"s1", s2n} :
                               (IF n = "s1" THEN l1 ELSE l2).present} |->
                        (IF s = "s1" THEN l1 ELSE l2).shard]
                ELSE EmptyObject]] :
     pd \in SUBSET DBs, ld \in SUBSET DBs, s2n \in {"s2", "_s2"},
     pix \in PlanIndexLists,
     p1 \in {Absent} \union {[present |-> TRUE, servers |-> l] : l \in ServerLists(sid)},
     p2 \in {Absent} \union {[present |-> TRUE, servers |-> l] : l \in BystanderLists(sid)},
     l1 \in {Absent} \union
            {[present |-> TRUE, shard |-> LocalShard("c1", ldr, js, ixs)] :
               ldr \in {"", Other(sid)}, js \in {1, 2}, ixs \in LocalIndexLists},
     l2 \in {Absent} \union
            {[present |-> TRUE, shard |-> LocalShard("c1", ldr, 1, <<IxPrimary, IxHashXY>>)] :
               ldr \in {"", Other(sid)}}}

(***************************************************************************)
(* Reconciliation passes of one node: diffPlanLocal, then the executor     *)
(* applies the actions to Local, then diffPlanLocal runs again.            *)
(***************************************************************************)
InitDiff ==
  /\ serverId \in ServerIds
  /\ \E in \in DiffInputs(serverId) : plan = in.plan /\ local = in.local
  /\ current = EmptyCurrent
  /\ vocbases = EmptyObject
  /\ actions = <<>>
  /\ report = <<>>
  /\ pc = "idle"
  /\ passNo = 0
  /\ queue = <<>>
  /\ log = <<>>
  /\ nodes = <<>>
  /\ runs = <<>>
  /\ conn = NoConnection

DiffPass ==
  /\ pc = "idle"
  /\ passNo < MaxPasses
  /\ actions' = diffPlanLocal(plan, local, serverId)
  /\ passNo' = passNo + 1
  /\ pc' = "diffed"
  /\ UNCHANGED <<plan, local, current, serverId, vocbases, report, queue, log, nodes, runs, conn>>

ApplyPass ==
  /\ pc = "diffed"
  /\ actions # <<>>
  /\ local' = applyActions(local, actions, serverId)
  /\ pc' = "idle"
  /\ UNCHANGED <<plan, current, serverId, vocbases, actions, report, passNo, queue, log, nodes, runs, conn>>

NextDiff == DiffPass \/ ApplyPass

SpecDiff == InitDiff /\ [][NextDiff]_vars

(***************************************************************************)
(* Properties of the DiffEngine.                                           *)
(***************************************************************************)
PlannedShards(pl) ==
  {<<d, c, s>> \in (DOMAIN pl[COLLECTIONS]) \X Range(KeyOrder) \X Range(KeyOrder) :
     /\ c \in DOMAIN pl[COLLECTIONS][d]
     /\ s \in DOMAIN pl[COLLECTIONS][d][c][SHARDS]}

PlannedServers(pl, t) == pl[COLLECTIONS][t[1]][t[2]][SHARDS][t[3]]

Occurrences(list, x) == Cardinality({m \in 1..Len(list) : list[m] = x})

ActionNames(as) == {as[i].name : i \in 1..Len(as)}

Diffed == pc = "diffed"

Realises(pl, loc, sid) ==
  /\ DOMAIN loc = DOMAIN pl["Databases"]
  /\ \A d \in DOMAIN loc :
       /\ DOMAIN loc[d] = {t[3] : t \in {u \in PlannedShards(pl) :
                              /\ u[1] = d
                              /\ ~FrontIsUnderscore(u[3])
                              /\ sid \in Range(PlannedServers(pl, u))}}
       /\ \A t \in PlannedShards(pl) :
            t[1] = d /\ t[3] \in DOMAIN loc[d] =>
              LET col == pl[COLLECTIONS][d][t[2]]
                  l == loc[d][t[3]]
              IN  /\ \A p \in Range(cmp) : l[p] = col[p]
                  /\ (l[LEADER] = "") <=> (PlannedServers(pl, t)[1] = sid)
                  /\ l[INDEXES] = col[INDEXES]

\* C2: diffPlanLocal emits zero actions whenever Local already realises Plan
\* for this node (same databases, exactly the planned non-system shards of
\* this node, each with the planned properties, leader role and indexes).
C2_Idempotence == Diffed /\ Realises(plan, local, serverId) => actions = <<>>

\* C4: no DropCollection is emitted for a shard whose planned server list
\* contains serverId.
C4_NoPlannedShardDropped ==
  Diffed =>
    \A i \in 1..Len(actions) :
       actions[i].name = "DropCollection" =>
         ~\E t \in PlannedShards(plan) :
             /\ t[3] = actions[i].collection
             /\ serverId \in Range(PlannedServers(plan, t))

C4_Witness ==
  /\ Diffed
  /\ \E t \in PlannedShards(plan) :
        /\ serverId \in Range(PlannedServers(plan, t))
        /\ HasShard(local, t[1], t[3])
        /\ ~FrontIsUnderscore(t[3])
  /\ "DropCollection" \in ActionNames(actions)

\* the planned shards of C5: serverId once in the list, database held, shard not
MissingShards(pl, loc, sid) ==
  {t \in PlannedShards(pl) :
     /\ Occurrences(PlannedServers(pl, t), sid) = 1
     /\ HasKey(loc, t[1])
     /\ \A d \in DOMAIN loc : ~HasKey(loc[d], t[3])}

\* C5: a planned shard that lists serverId once, whose database is held and
\* which is not in Local gets exactly one CreateCollection; its LEADER is
\* empty when serverId is the first planned server, else the first server.
C5_CreateMissingShard ==
  Diffed =>
    \A t \in MissingShards(plan, local, serverId) :
       LET srv == PlannedServers(plan, t)
           made == {i \in 1..Len(actions) :
                      /\ actions[i].name = "CreateCollection"
                      /\ actions[i].shard = t[3]}
       IN  /\ Cardinality(made) = 1
           /\ \A i \in made :
                /\ actions[i].database = t[1]
                /\ actions[i].collection = t[2]
                /\ actions[i].leader = (IF srv[1] = serverId THEN "" ELSE srv[1])

C5_Witness ==
  /\ Diffed
  /\ \E t \in MissingShards(plan, local, serverId) :
        PlannedServers(plan, t)[1] # serverId

\* the Plan with every repeated occurrence of sid removed from the server lists
RECURSIVE OnceIn(_, _, _)
OnceIn(list, sid, seen) ==
  IF list = <<>> THEN <<>>
  ELSE IF Head(list) = sid /\ seen THEN OnceIn(Tail(list), sid, seen)
  ELSE <<Head(list)>> \o OnceIn(Tail(list), sid, seen \/ Head(list) = sid)

OncePlan(pl, sid) ==
  [pl EXCEPT ![COLLECTIONS] =
     [d \in DOMAIN @ |-> [c \in DOMAIN @[d] |->
        [@[d][c] EXCEPT ![SHARDS] = [s \in DOMAIN @ |-> OnceIn(@[s], sid, FALSE)]]]]]

\* an action without its payload
Unpaid(a) == [k \in DOMAIN a \ {"properties"} |-> a[k]]

\* C6: when serverId occurs more than once in a planned server list the pass
\* emits the same actions as when it occurs once.
C6_RepeatedMatchIdempotent ==
  Diffed =>
    LET once == diffPlanLocal(OncePlan(plan, serverId), local, serverId)
    IN  [i \in 1..Len(actions) |-> Unpaid(actions[i])]
          = [i \in 1..Len(once) |-> Unpaid(once[i])]

\* the local shards of C8: not system, database in Plan, shard nowhere
\* assigned to sid
Unassigned(pl, loc, sid) ==
  {<<d, s>> \in DBs \X Range(KeyOrder) :
     /\ HasKey(pl["Databases"], d)
     /\ HasShard(loc, d, s)
     /\ ~FrontIsUnderscore(s)
     /\ \A t \in PlannedShards(pl) :
          t[3] = s => sid \notin Range(PlannedServers(pl, t))}

Emitted(n, d, s) ==
  \E i \in 1..Len(actions) :
     /\ actions[i].name = n
     /\ actions[i].database = d
     /\ (IF n = "ResignShardLeadership" THEN actions[i].shard ELSE actions[i].collection) = s

\* C8 as stated: every such local shard gets a DropCollection.
C8_UnassignedDropped ==
  Diffed =>
    \A u \in Unassigned(plan, local, serverId) : Emitted("DropCollection", u[1], u[2])

ResignPlanned(pl, loc, sid, d, s) ==
  /\ loc[d][s][LEADER] = ""
  /\ \E t \in PlannedShards(pl) :
        t[3] = s /\ PlannedServers(pl, t)[1] = UNDERSCORE \o sid

\* C8 (amended): every such local shard gets a DropCollection, unless its first
\* planned server is '_' followed by serverId while its Local leader field is
\* empty: then it gets a ResignShardLeadership and no DropCollection.
C8_UnassignedDroppedOrResigned ==
  Diffed =>
    \A u \in Unassigned(plan, local, serverId) :
       IF ResignPlanned(plan, local, serverId, u[1], u[2])
       THEN /\ Emitted("ResignShardLeadership", u[1], u[2])
            /\ ~Emitted("DropCollection", u[1], u[2])
       ELSE Emitted("DropCollection", u[1], u[2])

C8_Witness ==
  /\ Diffed
  /\ \E u \in Unassigned(plan, local, serverId) :
        /\ ~ResignPlanned(plan, local, serverId, u[1], u[2])
        /\ \E t \in PlannedShards(plan) : t[3] = u[2]
  /\ \E u \in Unassigned(plan, local, serverId) :
        ResignPlanned(plan, local, serverId, u[1], u[2])

\* a local index that satisfies planned index p in the sense of C9
Satisfies(l, p) ==
  /\ l[TYPE] \notin {PRIMARY, EDGE}
  /\ l[TYPE] = p[TYPE]
  /\ \A f \in Range(p[FIELDS]) \union Range(l[FIELDS]) :
       f \in Range(p[FIELDS]) /\ f \in Range(l[FIELDS])

\* the shards whose indexes are compared: assigned to sid and held
Compared(pl, loc, sid) ==
  {t \in PlannedShards(pl) :
     sid \in Range(PlannedServers(pl, t)) /\ HasShard(loc, t[1], t[3])}

indexOf_Last(slice, val) ==
  LET hits == {i \in 1..Len(slice) : slice[i] = val}
  IN  IF hits = {} THEN -1
      ELSE (CHOOSE i \in hits : \A j \in hits : i >= j) - 1

\* indexOf<std::string>: the position, counted from 0, of the first entry
\* equal to val, and -1 when there is none
indexOf(slice, val) ==
  LET hits == {i \in 1..Len(slice) : slice[i] = val}
  IN  IF hits = {} THEN -1
      ELSE (CHOOSE i \in hits : \A j \in hits : i <= j) - 1

syncReplicatedShardsWithLeaders(pl, cur, loc, sid) ==
  LET pdbs == pl[COLLECTIONS]
      cdbs == cur[COLLECTIONS]
      dbs == SelectSeq(Keys(pdbs), LAMBDA d : HasKey(loc, d) /\ HasKey(cdbs, d))
      shardAction(d, c, s) ==
        IF ~HasKey(loc[d], s) THEN <<>>
        ELSE IF ~HasKey(cdbs[d][c], s) THEN <<>>
        ELSE IF ~HasKey(cdbs[d][c][s], SERVERS) THEN <<>>
        ELSE
          LET pservers == pdbs[d][c][SHARDS][s]
              cservers == cdbs[d][c][s][SERVERS]
          IN  IF indexOf(pservers, sid) <= 0 THEN <<>>
              ELSE IF indexOf(cservers, sid) > 0 THEN <<>>
              ELSE << [name |-> "SynchronizeShard", database |-> d, collection |-> c,
                       shard |-> s, leader |-> pservers[1]] >>
      colActions(d, c) ==
        LET shs == Keys(pdbs[d][c][SHARDS])
        IN  Flatten([k \in 1..Len(shs) |-> shardAction(d, c, shs[k])])
      dbActions(d) ==
        LET cols == SelectSeq(Keys(pdbs[d]), LAMBDA c : HasKey(cdbs[d], c))
        IN  Flatten([j \in 1..Len(cols) |-> colActions(d, cols[j])])
  IN  Flatten([i \in 1..Len(dbs) |-> dbActions(dbs[i])])

\* an entry of Current/Collections/<db>/<collection>/<shard>
CurrentEntry(servers, ixs) ==
  [error |-> FALSE, errorMessage |-> "", errorNum |-> 0, indexes |-> ixs,
   servers |-> servers]

CurrentEntryWithoutServers(ixs) ==
  [error |-> FALSE, errorMessage |-> "", errorNum |-> 0, indexes |-> ixs]

\* Plan, Current and Local of one node: collection c1 of database d1 with
\* shards s1 and s2
SyncInputs(sid) ==
  {[plan |-> PlanDoc({"d1"}, [d \in DBs |-> [c \in {"c1"} |->
                PlanCollection(<<IxPrimary>>,
                  [s \in {n \in {"s1", "s2"} :
                            (IF n = "s1" THEN TRUE ELSE p2.present)} |->
                     IF s = "s1" THEN p1 ELSE p2.servers])]]),
    local |-> [d \in ld |->
                [s \in ls |-> LocalShard("c1", Other(sid), 1, <<IxPrimary>>)]],
    current |-> [Databases |-> EmptyObject,
                 Collections |-> [d \in cd |-> [c \in cc |->
                    [s \in {n \in {"s1", "s2"} :
                              (IF n = "s1" THEN c1 ELSE c2).present} |->
                       (IF s = "s1" THEN c1 ELSE c2).entry]]],
                 Version |-> 1]] :
     p1 \in ServerLists(sid),
     p2 \in {Absent} \union {[present |-> TRUE, servers |-> l] : l \in BystanderLists(sid)},
     ld \in {{}, {"d1"}}, ls \in SUBSET {"s1", "s2"},
     cd \in {{}, {"d1"}}, cc \in {{}, {"c1"}},
     c1 \in {Absent, [present |-> TRUE, entry |-> CurrentEntryWithoutServers(<<IxPrimary>>)]}
            \union {[present |-> TRUE, entry |-> CurrentEntry(l, <<IxPrimary>>)] :
                      l \in ServerLists(sid) \union {<<>>}},
     c2 \in {Absent} \union {[present |-> TRUE, entry |-> CurrentEntry(l, <<IxPrimary>>)] :
                      l \in BystanderLists(sid)}}

InitSync ==
  /\ serverId \in ServerIds
  /\ \E in \in SyncInputs(serverId) :
        plan = in.plan /\ local = in.local /\ current = in.current
  /\ vocbases = EmptyObject
  /\ actions = <<>>
  /\ report = <<>>
  /\ pc = "idle"
  /\ passNo = 0
  /\ queue = <<>>
  /\ log = <<>>
  /\ nodes = <<>>
  /\ runs = <<>>
  /\ conn = NoConnection

SyncPass ==
  /\ pc = "idle"
  /\ actions' = syncReplicatedShardsWithLeaders(plan, current, local, serverId)
  /\ pc' = "synced"
  /\ UNCHANGED <<plan, local, current, serverId, vocbases, report, passNo, queue, log, nodes, runs, conn>>

NextSync == SyncPass

SpecSync == InitSync /\ [][NextSync]_vars

(***************************************************************************)
(* Properties of the ReplicaSynchronizer.                                  *)
(***************************************************************************)
Synced == pc = "synced"

SyncActionsFor(s) ==
  {i \in 1..Len(actions) : actions[i].name = "SynchronizeShard" /\ actions[i].shard = s}

HeldAndReported(t) ==
  /\ HasShard(local, t[1], t[3])
  /\ HasKey(current[COLLECTIONS], t[1])
  /\ HasKey(current[COLLECTIONS][t[1]], t[2])
  /\ HasKey(current[COLLECTIONS][t[1]][t[2]], t[3])
  /\ HasKey(current[COLLECTIONS][t[1]][t[2]][t[3]], SERVERS)

OccursAfterFirst(list, x) == \E m \in 2..Len(list) : list[m] = x

ExactlyWhen(t, due) ==
  IF due
  THEN /\ Cardinality(SyncActionsFor(t[3])) = 1
       /\ \A i \in SyncActionsFor(t[3]) :
            /\ actions[i].leader = PlannedServers(plan, t)[1]
            /\ actions[i].database = t[1]
            /\ actions[i].collection = t[2]
  ELSE SyncActionsFor(t[3]) = {}

\* C7 as stated: one SynchronizeShard for a planned shard exactly when it is
\* held, Current has a servers list for it, serverId occurs in the planned list
\* at a position greater than 0 and does not occur in Current's list at a
\* position greater than 0.
C7_SyncWhenAnyLaterPosition ==
  Synced =>
    \A t \in PlannedShards(plan) :
       ExactlyWhen(t,
         /\ HeldAndReported(t)
         /\ OccursAfterFirst(PlannedServers(plan, t), serverId)
         /\ ~OccursAfterFirst(current[COLLECTIONS][t[1]][t[2]][t[3]][SERVERS], serverId))

\* C7 (amended): the positions are those of the first occurrence: serverId is
\* not the first planned server but occurs later in the planned list, and in
\* Current's list serverId is absent or the first entry.
C7_SyncWhenFirstOccurrenceLater ==
  Synced =>
    \A t \in PlannedShards(plan) :
       ExactlyWhen(t,
         /\ HeldAndReported(t)
         /\ PlannedServers(plan, t)[1] # serverId
         /\ OccursAfterFirst(PlannedServers(plan, t), serverId)
         /\ LET cs == current[COLLECTIONS][t[1]][t[2]][t[3]][SERVERS]
            IN  \/ serverId \notin Range(cs)
                \/ cs[1] = serverId)

C7_Witness ==
  /\ Synced
  /\ \E t \in PlannedShards(plan) :
        /\ SyncActionsFor(t[3]) # {}
        /\ HeldAndReported(t)
        /\ OccursAfterFirst(current[COLLECTIONS][t[1]][t[2]][t[3]][SERVERS], serverId)
  /\ \E t \in PlannedShards(plan) :
        /\ SyncActionsFor(t[3]) = {}
        /\ HeldAndReported(t)
        /\ OccursAfterFirst(PlannedServers(plan, t), serverId)

(***************************************************************************)
(* Local vs Current: the CurrentReporter.  vocbases is the storage         *)
(* collaborator: the databases Databases::lookup resolves, each with its   *)
(* id and the collections lookupCollection resolves, each with the         *)
(* followers it presently knows.                                           *)
(***************************************************************************)
removeSelectivityEstimate(index) ==
  [k \in DOMAIN index \ {SELECTIVITY_ESTIMATE} |-> index[k]]

\* variant: a failed lookup is reported as an error entry of the shard
assembleLocalCollectioInfo_ErrorEntry(info, database, shard, ourselves, voc) ==
  IF ~HasKey(voc, database) \/ ~HasKey(voc[database].collections, shard)
  THEN [error |-> TRUE,
        errorMessage |-> "Failed to lookup",
        errorNum |-> 1,
        indexes |-> <<>>,
        servers |-> <<ourselves>>]
  ELSE [error |-> FALSE,
        errorMessage |-> "",
        errorNum |-> 0,
        indexes |-> [i \in 1..Len(info[INDEXES]) |->
                       removeSelectivityEstimate(info[INDEXES][i])],
        servers |-> <<ourselves>> \o voc[database].collections[shard]]

\* the empty object when the database or the collection is not resolved
assembleLocalCollectioInfo(info, database, shard, ourselves, voc) ==
  IF ~HasKey(voc, database) THEN EmptyObject
  ELSE IF ~HasKey(voc[database].collections, shard) THEN EmptyObject
  ELSE [error |-> FALSE,
        errorMessage |-> "",
        errorNum |-> 0,
        indexes |-> [i \in 1..Len(info[INDEXES]) |->
                       removeSelectivityEstimate(info[INDEXES][i])],
        servers |-> <<ourselves>> \o voc[database].collections[shard]]

\* variant: the server list is left out of the comparison
equivalent_WithoutServers(loc, cur) ==
  \A k \in DOMAIN loc \ {SERVERS} :
     /\ HasKey(cur, k)
     /\ IF k = INDEXES THEN NormalizedEqualsIndexes(loc[k], cur[k])
        ELSE loc[k] = cur[k]

\* every member of the local snapshot equals, normalized, Current's member
equivalent(loc, cur) ==
  \A k \in DOMAIN loc :
     /\ HasKey(cur, k)
     /\ IF k = INDEXES THEN NormalizedEqualsIndexes(loc[k], cur[k])
        ELSE IF k = SERVERS THEN NormalizedEqualsArray(loc[k], cur[k])
        ELSE loc[k] = cur[k]

\* variant: the reported id counts the runs made so far
assembleLocalDatabaseInfo_Counting(database, voc) ==
  IF ~HasKey(voc, database) THEN EmptyObject
  ELSE [error |-> FALSE, errorNum |-> 0, errorMessage |-> "",
        id |-> ToString(voc[database].id + Len(runs)), name |-> voc[database].name]

assembleLocalDatabaseInfo(database, voc) ==
  IF ~HasKey(voc, database) THEN EmptyObject
  ELSE [error |-> FALSE, errorNum |-> 0, errorMessage |-> "",
        id |-> ToString(voc[database].id), name |-> voc[database].name]

SetOp(path, payload) == [path |-> path, op |-> VP_SET, payload |-> payload]

DeleteOp(path) == [path |-> path, op |-> VP_DELETE]

HasPath3(obj, a, b, c) == HasKey(obj, a) /\ HasKey(obj[a], b) /\ HasKey(obj[a][b], c)

\* variant: the server list is written back as Current has it
reportShard_Unmarked(cur, dbName, shName, shSlice, sid, voc) ==
  LET colName == shSlice[PLAN_ID]
      cols == cur[COLLECTIONS]
      inCurrent == HasPath3(cols, dbName, colName, shName)
  IN
  IF FrontIsUnderscore(shName) THEN <<>>
  ELSE IF shSlice[LEADER] = "" THEN
    LET localCollectionInfo == assembleLocalCollectioInfo(shSlice, dbName, shName, sid, voc)
    IN  IF localCollectionInfo = EmptyObject THEN <<>>
        ELSE IF ~inCurrent
                  \/ (inCurrent /\ ~equivalent(localCollectionInfo,
                                               cols[dbName][colName][shName]))
        THEN << SetOp(CURRENT_COLLECTIONS \o dbName \o "/" \o colName \o "/" \o shName,
                      localCollectionInfo) >>
        ELSE <<>>
  ELSE
    IF inCurrent /\ HasKey(cols[dbName][colName][shName], SERVERS)
    THEN LET srv == cols[dbName][colName][shName][SERVERS]
         IN  IF srv[1] = sid
             THEN << SetOp(CURRENT_COLLECTIONS \o dbName \o "/" \o colName \o "/"
                             \o shName \o "/" \o SERVERS, srv) >>
             ELSE <<>>
    ELSE <<>>

\* the report of one local shard (lines 557-622)
reportShard(cur, dbName, shName, shSlice, sid, voc) ==
  LET colName == shSlice[PLAN_ID]
      cols == cur[COLLECTIONS]
      inCurrent == HasPath3(cols, dbName, colName, shName)
  IN
  IF FrontIsUnderscore(shName) THEN <<>>
  ELSE IF shSlice[LEADER] = "" THEN
    LET localCollectionInfo == assembleLocalCollectioInfo(shSlice, dbName, shName, sid, voc)
    IN  IF localCollectionInfo = EmptyObject THEN <<>>
        ELSE IF ~inCurrent
                  \/ (inCurrent /\ ~equivalent(localCollectionInfo,
                                               cols[dbName][colName][shName]))
        THEN << SetOp(CURRENT_COLLECTIONS \o dbName \o "/" \o colName \o "/" \o shName,
                      localCollectionInfo) >>
        ELSE <<>>
  ELSE
    IF inCurrent /\ HasKey(cols[dbName][colName][shName], SERVERS)
    THEN LET srv == cols[dbName][colName][shName][SERVERS]
         IN  IF srv[1] = sid
             THEN << SetOp(CURRENT_COLLECTIONS \o dbName \o "/" \o colName \o "/"
                             \o shName \o "/" \o SERVERS,
                           [i \in 1..Len(srv) |->
                              IF i = 1 THEN UNDERSCORE \o srv[i] ELSE srv[i]]) >>
             ELSE <<>>
    ELSE <<>>

\* variant: the database is reported at Current/Databases/<db>
reportDatabase_Shared(cur, loc, dbName, sid, voc) ==
  LET localDatabaseInfo == assembleLocalDatabaseInfo(dbName, voc)
      known == HasKey(cur["Databases"], dbName) /\ HasKey(cur["Databases"][dbName], sid)
      dbOp == IF ~known /\ localDatabaseInfo # EmptyObject
              THEN << SetOp(CURRENT_DATABASES \o dbName, localDatabaseInfo) >>
              ELSE <<>>
      shs == Keys(loc[dbName])
  IN  dbOp \o Flatten([k \in 1..Len(shs) |->
                         reportShard(cur, dbName, shs[k], loc[dbName][shs[k]], sid, voc)])

\* variant: the database is written even when storage does not resolve it
reportDatabase_Unresolved(cur, loc, dbName, sid, voc) ==
  LET localDatabaseInfo == assembleLocalDatabaseInfo(dbName, voc)
      known == HasKey(cur["Databases"], dbName) /\ HasKey(cur["Databases"][dbName], sid)
      dbOp == IF ~known
              THEN << SetOp(CURRENT_DATABASES \o dbName \o "/" \o sid, localDatabaseInfo) >>
              ELSE <<>>
      shs == Keys(loc[dbName])
  IN  dbOp \o Flatten([k \in 1..Len(shs) |->
                         reportShard(cur, dbName, shs[k], loc[dbName][shs[k]], sid, voc)])

\* the report of one local database and its shards (lines 541-623)
reportDatabase(cur, loc, dbName, sid, voc) ==
  LET localDatabaseInfo == assembleLocalDatabaseInfo(dbName, voc)
      known == HasKey(cur["Databases"], dbName) /\ HasKey(cur["Databases"][dbName], sid)
      dbOp == IF ~known /\ localDatabaseInfo # EmptyObject
              THEN << SetOp(CURRENT_DATABASES \o dbName \o "/" \o sid, localDatabaseInfo) >>
              ELSE <<>>
      shs == Keys(loc[dbName])
  IN  dbOp \o Flatten([k \in 1..Len(shs) |->
                         reportShard(cur, dbName, shs[k], loc[dbName][shs[k]], sid, voc)])

\* variant: serverId anywhere in the server list
listsUsFirst_Anywhere(entry, sid) ==
  /\ HasKey(entry, SERVERS)
  /\ \E i \in 1..Len(entry[SERVERS]) : entry[SERVERS][i] = sid

\* the shard entry of Current has servers and this node is the first of them
listsUsFirst(entry, sid) ==
  /\ HasKey(entry, SERVERS)
  /\ Len(entry[SERVERS]) > 0
  /\ entry[SERVERS][1] = sid

\* the backward pass over one database of Current/Collections (lines 630-667)
retractDatabase(pl, cur, loc, dbName, sid) ==
  LET cdbs == cur[COLLECTIONS]
      pdbs == pl[COLLECTIONS]
      shardMap == getShardMap(pdbs)
      shardOp(c, s) ==
        IF /\ listsUsFirst(cdbs[dbName][c][s], sid)
           /\ ~HasShard(loc, dbName, s)
           /\ ~HasKey(shardMap, s)
        THEN << DeleteOp(CURRENT_COLLECTIONS \o dbName \o "/" \o c \o "/" \o s) >>
        ELSE <<>>
      colOps(c) ==
        LET shs == Keys(cdbs[dbName][c])
        IN  Flatten([k \in 1..Len(shs) |-> shardOp(c, shs[k])])
      cols == Keys(cdbs[dbName])
  IN  IF ~HasKey(loc, dbName) /\ ~HasKey(pdbs, dbName)
      THEN << DeleteOp(CURRENT_DATABASES \o dbName \o "/" \o sid) >>
      ELSE Flatten([j \in 1..Len(cols) |-> colOps(cols[j])])

\* the pass over Local (lines 541-623)
reportForward(cur, loc, sid, voc) ==
  LET held == Keys(loc)
  IN  Flatten([i \in 1..Len(held) |-> reportDatabase(cur, loc, held[i], sid, voc)])

\* the pass over Current/Collections (lines 625-667)
reportBackward(pl, cur, loc, sid) ==
  LET reported == Keys(cur[COLLECTIONS])
  IN  Flatten([i \in 1..Len(reported) |-> retractDatabase(pl, cur, loc, reported[i], sid)])

reportInCurrent(pl, cur, loc, sid, voc) ==
  reportForward(cur, loc, sid, voc) \o reportBackward(pl, cur, loc, sid)

IxHashXYEstimated ==
  [id |-> "1", type |-> "hash", fields |-> <<"x", "y">>, selectivityEstimate |-> 1]

Vocbase(id, name, cols) == [id |-> id, name |-> name, collections |-> cols]

\* Plan, Current, Local and storage of one node: database d1 with shard s1 of
\* collection c1 and a local system collection, database d2 without shards
ReportInput(sid, pd, p1, ld, ls, l1, vd, v1, cdb, cco, c1) ==
  [plan |-> PlanDoc(pd, [d \in DBs |->
                IF d = "d1"
                THEN [c \in {"c1"} |-> PlanCollection(<<IxPrimary, IxHashXY>>,
                        [s \in (IF p1 THEN {"s1"} ELSE {}) |-> <<sid>>])]
                ELSE EmptyObject]),
   local |-> [d \in ld |->
                IF d = "d1"
                THEN [s \in (IF l1.present THEN {"s1"} ELSE {}) \union ls |->
                        IF s = "s1" THEN l1.shard
                        ELSE LocalShard("c1", "", 1, <<IxPrimary>>)]
                ELSE EmptyObject],
   vocbases |-> [d \in vd |->
                IF d = "d1"
                THEN Vocbase(1, d, [s \in (IF v1.present THEN {"s1"} ELSE {}) \union ls
                                      |-> IF s = "s1" THEN v1.followers ELSE <<>>])
                ELSE Vocbase(2, d, EmptyObject)],
   current |-> [Databases |-> [d \in cdb |-> [x \in {sid} |-> [name |-> d]]],
                Collections |-> [d \in cco |->
                   IF d = "d1"
                   THEN [c \in {"c1"} |->
                           [s \in (IF c1.present THEN {"s1"} ELSE {}) |-> c1.entry]]
                   ELSE EmptyObject],
                Version |-> 1]]

LocalShardChoices(sid, ld) ==
  IF "d1" \notin ld THEN {Absent}
  ELSE {Absent} \union
       {[present |-> TRUE,
         shard |-> LocalShard("c1", ldr, 1, <<IxPrimary, IxHashXYEstimated>>)] :
          ldr \in {"", Other(sid)}}

FollowerChoices(sid, vd, l1) ==
  IF "d1" \notin vd \/ ~l1.present THEN {Absent}
  ELSE {Absent} \union
       {[present |-> TRUE, followers |-> f] : f \in {<<>>, <<Other(sid)>>}}

CurrentShardChoices(sid, cco) ==
  IF "d1" \notin cco THEN {Absent}
  ELSE {Absent,
        [present |-> TRUE, entry |-> CurrentEntryWithoutServers(<<IxPrimary, IxHashXY>>)]}
       \union {[present |-> TRUE, entry |-> CurrentEntry(l, <<IxPrimary, IxHashXY>>)] :
                 l \in ServerLists(sid)}
       \union {[present |-> TRUE, entry |-> CurrentEntry(l, <<IxPrimary>>)] :
                 l \in {<<sid>>, <<sid, Other(sid)>>}}

InitReport ==
  /\ serverId \in ServerIds
  /\ \E pd \in SUBSET DBs, ld \in SUBSET DBs, cdb \in SUBSET DBs, cco \in SUBSET DBs :
       \E p1 \in (IF "d1" \in pd THEN BOOLEAN ELSE {FALSE}),
          ls \in (IF "d1" \in ld THEN {{}, {"_s2"}} ELSE {{}}),
          l1 \in LocalShardChoices(serverId, ld),
          vd \in SUBSET ld,
          c1 \in CurrentShardChoices(serverId, cco) :
         \E v1 \in FollowerChoices(serverId, vd, l1) :
            LET in == ReportInput(serverId, pd, p1, ld, ls, l1, vd, v1, cdb, cco, c1)
            IN  /\ plan = in.plan
                /\ local = in.local
                /\ current = in.current
                /\ vocbases = in.vocbases
  /\ actions = <<>>
  /\ report = <<>>
  /\ pc = "idle"
  /\ passNo = 0
  /\ queue = <<>>
  /\ log = <<>>
  /\ nodes = <<>>
  /\ runs = <<>>
  /\ conn = NoConnection

ReportPass ==
  /\ pc = "idle"
  /\ report' = reportInCurrent(plan, current, local, serverId, vocbases)
  /\ pc' = "reported"
  /\ UNCHANGED <<plan, local, current, serverId, vocbases, actions, passNo, queue, log, nodes, runs, conn>>

NextReport == ReportPass

SpecReport == InitReport /\ [][NextReport]_vars

(***************************************************************************)
(* Properties of the CurrentReporter                                       *)
(***************************************************************************)
Reported == pc = "reported"

Resolvable(db, sh) == HasKey(vocbases, db) /\ HasKey(vocbases[db].collections, sh)

\* the non-system local shards this node leads
LedShards ==
  {t \in (DOMAIN local) \X Range(KeyOrder) :
     /\ HasShard(local, t[1], t[2])
     /\ ~FrontIsUnderscore(t[2])
     /\ local[t[1]][t[2]][LEADER] = ""}

ShardPath(t) ==
  CURRENT_COLLECTIONS \o t[1] \o "/" \o local[t[1]][t[2]][PLAN_ID] \o "/" \o t[2]

ReportedInCurrent(t) ==
  HasPath3(current[COLLECTIONS], t[1], local[t[1]][t[2]][PLAN_ID], t[2])

CurrentShardEntry(t) == current[COLLECTIONS][t[1]][local[t[1]][t[2]][PLAN_ID]][t[2]]

\* what a leader reports for its shard: no error, the indexes without their
\* selectivity estimate, itself followed by its followers
ExpectedSnapshot(t) ==
  [error |-> FALSE, errorMessage |-> "", errorNum |-> 0,
   indexes |-> [i \in 1..Len(local[t[1]][t[2]][INDEXES]) |->
                  [k \in DOMAIN local[t[1]][t[2]][INDEXES][i] \ {"selectivityEstimate"} |->
                     local[t[1]][t[2]][INDEXES][i][k]]],
   servers |-> <<serverId>> \o vocbases[t[1]].collections[t[2]]]

\* the shard entries of Current that list this node first
ListedFirst ==
  {t \in (DOMAIN current[COLLECTIONS]) \X Range(KeyOrder) \X Range(KeyOrder) :
     /\ HasPath3(current[COLLECTIONS], t[1], t[2], t[3])
     /\ HasKey(current[COLLECTIONS][t[1]][t[2]][t[3]], SERVERS)
     /\ Len(current[COLLECTIONS][t[1]][t[2]][t[3]][SERVERS]) > 0
     /\ current[COLLECTIONS][t[1]][t[2]][t[3]][SERVERS][1] = serverId}

CurrentHoldsReport ==
  /\ \A db \in DOMAIN local :
        HasKey(current["Databases"], db) /\ HasKey(current["Databases"][db], serverId)
  /\ \A t \in LedShards :
        /\ Resolvable(t[1], t[2])
        /\ ReportedInCurrent(t)
        /\ CurrentShardEntry(t) = ExpectedSnapshot(t)
  /\ \A t \in ListedFirst :
        HasShard(local, t[1], t[3]) /\ local[t[1]][t[3]][LEADER] = ""

\* C3: when Current already holds what this node would report (its entry
\* under Databases for every local database, the snapshot of every shard it
\* leads, no entry listing it first for a shard it follows or no longer
\* holds), reportInCurrent emits no set and no delete operation.
C3_ReporterIdempotence == Reported /\ CurrentHoldsReport => report = <<>>

SnapshotFields == {"error", "errorMessage", "errorNum", "indexes", "servers"}

FieldDiffers(k, snap, entry) ==
  \/ ~HasKey(entry, k)
  \/ IF k = "indexes" THEN ~NormalizedEqualsIndexes(snap[k], entry[k])
     ELSE IF k = "servers" THEN ~NormalizedEqualsArray(snap[k], entry[k])
     ELSE snap[k] # entry[k]

DiffersFromCurrent(t) ==
  \/ ~ReportedInCurrent(t)
  \/ \E k \in SnapshotFields : FieldDiffers(k, ExpectedSnapshot(t), CurrentShardEntry(t))

WritesAt(path) ==
  {i \in 1..Len(report) :
     report[i].path = path \/ report[i].path = path \o "/" \o SERVERS}

\* C10: for a non-system local shard this node leads and storage resolves,
\* reportInCurrent emits one set operation at
\* Current/Collections/<db>/<planId>/<shard>, carrying the assembled
\* snapshot, exactly when Current has no entry there or a field of the
\* snapshot differs from Current's entry; otherwise it emits no write for
\* the shard.
C10_LeaderShardReported ==
  Reported =>
    \A t \in LedShards :
       Resolvable(t[1], t[2]) =>
          IF DiffersFromCurrent(t)
          THEN /\ Cardinality(WritesAt(ShardPath(t))) = 1
               /\ \A i \in WritesAt(ShardPath(t)) :
                     report[i] = SetOp(ShardPath(t), ExpectedSnapshot(t))
          ELSE WritesAt(ShardPath(t)) = {}

\* a led shard whose entry in Current differs in its server list only is
\* written, and the selectivity estimate of its index is not part of it
C10_Witness ==
  /\ Reported
  /\ \E t \in LedShards :
        /\ Resolvable(t[1], t[2])
        /\ ReportedInCurrent(t)
        /\ {k \in SnapshotFields :
              FieldDiffers(k, ExpectedSnapshot(t), CurrentShardEntry(t))} = {"servers"}
        /\ WritesAt(ShardPath(t)) # {}
        /\ \E i \in 1..Len(local[t[1]][t[2]][INDEXES]) :
              HasKey(local[t[1]][t[2]][INDEXES][i], "selectivityEstimate")

(***************************************************************************)
(* Exceptions inside a pass.  Reading a member a slice does not hold       *)
(* yields the None slice; copyString on it, an object iterator over it and *)
(* operator[] beyond the end of an array raise an exception.               *)
(***************************************************************************)
\* a planned collection without shards: the object iterator over
\* get(SHARDS) raises (264, 310, 720)
LacksShards(pl) ==
  \E d \in DOMAIN pl[COLLECTIONS] :
    \E c \in DOMAIN pl[COLLECTIONS][d] : ~HasKey(pl[COLLECTIONS][d][c], SHARDS)

\* diffPlanLocal raises: Plan lacks Databases (285) or Collections (304), a
\* planned collection lacks shards (310, 327), a held shard planned for this
\* node lacks its leader entry (157), a local shard has an empty planned
\* server list (210) or lacks its leader entry (212)
diffPlanLocalThrows(pl, loc, sid) ==
  \/ ~HasKey(pl, "Databases")
  \/ ~HasKey(pl, COLLECTIONS)
  \/ LacksShards(pl)
  \/ \E d \in DOMAIN pl[COLLECTIONS] \cap DOMAIN loc :
       \E c \in DOMAIN pl[COLLECTIONS][d] :
         \E s \in DOMAIN pl[COLLECTIONS][d][c][SHARDS] :
            /\ sid \in Range(pl[COLLECTIONS][d][c][SHARDS][s])
            /\ HasKey(loc[d], s)
            /\ ~HasKey(loc[d][s], LEADER)
  \/ \E d \in DOMAIN loc \cap DOMAIN pl[COLLECTIONS] :
       \E s \in DOMAIN loc[d] :
          /\ ~FrontIsUnderscore(s)
          /\ \/ HasKey(getShardMap(pl[COLLECTIONS]), s)
                  /\ getShardMap(pl[COLLECTIONS])[s] = <<>>
             \/ ~HasKey(loc[d][s], LEADER)

\* the pass over one local shard raises: no planId (565), no leader (569), or
\* a follower whose entry in Current has an empty server list (600)
reportShardThrows(cur, dbName, shName, shSlice) ==
  /\ ~FrontIsUnderscore(shName)
  /\ \/ ~HasKey(shSlice, PLAN_ID)
     \/ ~HasKey(shSlice, LEADER)
     \/ /\ shSlice[LEADER] # ""
        /\ HasPath3(cur[COLLECTIONS], dbName, shSlice[PLAN_ID], shName)
        /\ HasKey(cur[COLLECTIONS][dbName][shSlice[PLAN_ID]][shName], SERVERS)
        /\ cur[COLLECTIONS][dbName][shSlice[PLAN_ID]][shName][SERVERS] = <<>>

\* the local shards in the order the pass over Local visits them
LocalShardsInOrder(loc) ==
  Flatten([i \in 1..Len(Keys(loc)) |->
             [k \in 1..Len(Keys(loc[Keys(loc)[i]])) |->
                <<Keys(loc)[i], Keys(loc[Keys(loc)[i]])[k]>>]])

ThrowingShards(cur, loc) ==
  {k \in 1..Len(LocalShardsInOrder(loc)) :
     LET t == LocalShardsInOrder(loc)[k]
     IN  reportShardThrows(cur, t[1], t[2], loc[t[1]][t[2]])}

\* Local up to, and without, the shard at which the pass over Local raises
LocalBeforeThrow(cur, loc) ==
  LET order == LocalShardsInOrder(loc)
      first == CHOOSE k \in ThrowingShards(cur, loc) :
                  \A m \in ThrowingShards(cur, loc) : k <= m
      dbAt(d) == CHOOSE i \in 1..Len(Keys(loc)) : Keys(loc)[i] = d
      at(d, x) == CHOOSE k \in 1..Len(order) : order[k] = <<d, x>>
  IN  [d \in {x \in DOMAIN loc : dbAt(x) <= dbAt(order[first][1])} |->
         [x \in {y \in DOMAIN loc[d] : at(d, y) < first} |-> loc[d][x]]]

\* reportInCurrent: the operations written to the report, and whether the
\* pass raised; the shard map is built after the pass over Local (627)
reportInCurrentOutcome(pl, cur, loc, sid, voc) ==
  IF ThrowingShards(cur, loc) # {}
  THEN [thrown |-> TRUE, ops |-> reportForward(cur, LocalBeforeThrow(cur, loc), sid, voc)]
  ELSE IF ~HasKey(pl, COLLECTIONS) \/ LacksShards(pl)
  THEN [thrown |-> TRUE, ops |-> reportForward(cur, loc, sid, voc)]
  ELSE [thrown |-> FALSE, ops |-> reportInCurrent(pl, cur, loc, sid, voc)]

\* syncReplicatedShardsWithLeaders raises: Plan lacks Collections (712), or a
\* planned collection that Current knows, in a database Local holds, lacks
\* shards (720)
syncThrows(pl, cur, loc, sid) ==
  \/ ~HasKey(pl, COLLECTIONS)
  \/ \E d \in DOMAIN pl[COLLECTIONS] :
       /\ HasKey(loc, d)
       /\ HasKey(cur[COLLECTIONS], d)
       /\ \E c \in DOMAIN pl[COLLECTIONS][d] :
             HasKey(cur[COLLECTIONS][d], c) /\ ~HasKey(pl[COLLECTIONS][d][c], SHARDS)

(***************************************************************************)
(* The orchestrator: handleChange, phaseOne, phaseTwo and executePlan.     *)
(* A call works on h: the action queue of the maintenance feature, the     *)
(* report document as the sequence of its members, the errors logged, the  *)
(* Result, and whether an exception is on its way to the caller.           *)
(***************************************************************************)
NoneSlice == [none |-> TRUE]

\* doc.get("Version")
Version(doc) == IF HasKey(doc, "Version") THEN doc["Version"] ELSE NoneSlice

Member(key, value) == [key |-> key, value |-> value]

\* variant: the actions are queued last first
executePlan_LastFirst(h, pl, loc, sid) ==
  IF diffPlanLocalThrows(pl, loc, sid) THEN [h EXCEPT !.escaped = TRUE]
  ELSE LET acts == diffPlanLocal(pl, loc, sid)
       IN  [h EXCEPT !.queue = @ \o [i \in 1..Len(acts) |-> acts[Len(acts) + 1 - i]]]

\* executePlan: the actions of diffPlanLocal are queued one by one once the
\* diff is complete
executePlan(h, pl, loc, sid) ==
  IF diffPlanLocalThrows(pl, loc, sid) THEN [h EXCEPT !.escaped = TRUE]
  ELSE [h EXCEPT !.queue = @ \o diffPlanLocal(pl, loc, sid)]

\* catch (std::exception const&) { LOG_TOPIC(ERR, ..) << message }: the
\* exception ends here and the error is logged
caught(out, message) ==
  IF out.escaped
  THEN [out EXCEPT !.escaped = FALSE, !.log = Append(@, message)]
  ELSE out

\* variant: no failure boundary around executePlan
tryExecutePlan_Unbounded(h, pl, loc, sid) == executePlan(h, pl, loc, sid)

\* try { result = executePlan(..) } catch (std::exception const&) { log }
tryExecutePlan(h, pl, loc, sid) ==
  caught(executePlan(h, pl, loc, sid), "Error executing plan")

phaseOne(h, pl, cur, loc, sid) ==
  tryExecutePlan([h EXCEPT !.report = Append(@, Member("phaseOne", EmptyObject))],
                 pl, loc, sid)

\* reportInCurrent with outcome out has written its operations into the
\* member of the report that phaseTwo opened; an exception is on its way
written(h, out) ==
  [h EXCEPT !.report[Len(h.report)].value = @ \o out.ops, !.escaped = out.thrown]

\* variant: the exception of reportInCurrent leaves phaseTwo
tryReportInCurrent_Unbounded(h, pl, cur, loc, sid, voc) ==
  written(h, reportInCurrentOutcome(pl, cur, loc, sid, voc))

\* try { result = reportInCurrent(..) } catch (std::exception const&) { log };
\* what the pass wrote to the report before it raised stays there
tryReportInCurrent(h, pl, cur, loc, sid, voc) ==
  caught(written(h, reportInCurrentOutcome(pl, cur, loc, sid, voc)),
         "Error reporting in current")

\* variant: an exception of reportInCurrent ends phaseTwo
trySync_AfterReport(h, pl, cur, loc, sid) ==
  IF syncThrows(pl, cur, loc, sid) \/ "Error reporting in current" \in Range(h.log)
  THEN [h EXCEPT !.log = Append(@, "Error scheduling shards")]
  ELSE [h EXCEPT !.queue = @ \o syncReplicatedShardsWithLeaders(pl, cur, loc, sid)]

\* try { syncReplicatedShardsWithLeaders(..); queue each action } catch { log }
trySync(h, pl, cur, loc, sid) ==
  IF syncThrows(pl, cur, loc, sid)
  THEN [h EXCEPT !.log = Append(@, "Error scheduling shards")]
  ELSE [h EXCEPT !.queue = @ \o syncReplicatedShardsWithLeaders(pl, cur, loc, sid)]

\* phaseTwo after its first try block has left h1
scheduleShards(h1, pl, cur, loc, sid) ==
  IF h1.escaped THEN h1 ELSE trySync(h1, pl, cur, loc, sid)

phaseTwo(h, pl, cur, loc, sid, voc) ==
  scheduleShards(
    tryReportInCurrent([h EXCEPT !.report = Append(@, Member("phaseTwo", <<>>))],
                       pl, cur, loc, sid, voc),
    pl, cur, loc, sid)

\* handleChange after phaseTwo has returned h2: the Current member
echoCurrent(h2, cur) ==
  IF h2.escaped \/ h2.result # "ok" THEN h2
  ELSE [h2 EXCEPT !.report = Append(@, Member("Current", [Version |-> Version(cur)]))]

\* handleChange after phaseOne has returned h1: the Plan member, phaseTwo
echoPlanAndPhaseTwo(h1, pl, cur, loc, sid, voc) ==
  IF h1.escaped \/ h1.result # "ok" THEN h1
  ELSE echoCurrent(phaseTwo([h1 EXCEPT !.report =
                                Append(@, Member("Plan", [Version |-> Version(pl)]))],
                            pl, cur, loc, sid, voc),
                   cur)

\* variant: phaseTwo runs only when phaseOne logged no error
handleChange_StopOnError(h, pl, cur, loc, sid, voc) ==
  echoPlanAndPhaseTwo(
    [phaseOne(h, pl, cur, loc, sid) EXCEPT
       !.result = IF diffPlanLocalThrows(pl, loc, sid) THEN "failed" ELSE @],
    pl, cur, loc, sid, voc)

handleChange(h, pl, cur, loc, sid, voc) ==
  echoPlanAndPhaseTwo(phaseOne(h, pl, cur, loc, sid), pl, cur, loc, sid, voc)

\* Plan, Current and Local of one node with the substructures a snapshot may
\* lack: Collections or Version in Plan, Version in Current, the leader entry
\* of a local shard, the servers of Current's entry
ChangeLocals(sid) ==
  {EmptyObject, [d \in {"d1"} |-> EmptyObject]}
  \union {[d \in ds |-> IF d = "d1" THEN [s \in {"s1"} |-> sh] ELSE EmptyObject] :
            ds \in {{"d1"}, {"d1", "d2"}},
            sh \in {LocalShard("c1", "", 1, <<IxPrimary>>),
                    LocalShard("c1", Other(sid), 1, <<IxPrimary>>),
                    LocalShard("c1", Other(sid), 2, <<IxPrimary>>),
                    Without(LocalShard("c1", "", 1, <<IxPrimary>>), LEADER),
                    Without(LocalShard("c1", Other(sid), 1, <<IxPrimary>>), PLAN_ID)}}

ChangePlans(sid) ==
  {IF lacks = "nothing" THEN pl
   ELSE IF lacks = SHARDS
   THEN [pl EXCEPT ![COLLECTIONS]["d1"]["c1"] = Without(@, SHARDS)]
   ELSE Without(pl, lacks) :
     lacks \in {"nothing", "Databases", COLLECTIONS, "Version", SHARDS},
     pl \in {PlanDoc({"d1"}, [d \in DBs |-> [c \in {"c1"} |->
                PlanCollection(<<IxPrimary>>, [s \in {"s1"} |-> l])]]) :
               l \in ServerLists(sid)}}

ChangeCurrents(sid) ==
  {IF whole THEN cur ELSE Without(cur, "Version") :
     whole \in BOOLEAN,
     cur \in {EmptyCurrent} \union
             {[Databases |-> EmptyObject,
               Collections |-> [d \in {"d1"} |-> [c \in {"c1"} |-> [s \in {"s1"} |->
                                  CurrentEntry(l, <<IxPrimary>>)]]],
               Version |-> 1] : l \in {<<>>, <<sid>>, <<Other(sid)>>, <<sid, Other(sid)>>}}}

\* storage resolves every database and collection of Local, without followers
StorageOf(loc) ==
  [d \in DOMAIN loc |-> Vocbase(1, d, [s \in DOMAIN loc[d] |-> <<>>])]

InitChange ==
  /\ serverId \in ServerIds
  /\ plan \in ChangePlans(serverId)
  /\ local \in ChangeLocals(serverId)
  /\ current \in ChangeCurrents(serverId)
  /\ vocbases = StorageOf(local)
  /\ actions = <<>>
  /\ report = <<>>
  /\ pc = "idle"
  /\ passNo = 0
  /\ queue = <<>>
  /\ log = <<>>
  /\ nodes = <<>>
  /\ runs = <<>>
  /\ conn = NoConnection

\* one call of handleChange by the periodic caller
HandleChange ==
  /\ pc = "idle"
  /\ LET h == handleChange([queue |-> queue, report |-> <<>>, log |-> log,
                            result |-> "ok", escaped |-> FALSE],
                           plan, current, local, serverId, vocbases)
     IN  /\ queue' = h.queue
         /\ report' = h.report
         /\ log' = h.log
         /\ pc' = IF h.escaped THEN "escaped" ELSE "returned"
  /\ UNCHANGED <<plan, local, current, serverId, vocbases, actions, passNo, nodes, runs, conn>>

NextChange == HandleChange

SpecChange == InitChange /\ [][NextChange]_vars

(***************************************************************************)
(* Properties of the orchestrator.                                         *)
(***************************************************************************)
Handled == pc \in {"returned", "escaped"}

ReportKeys == [i \in 1..Len(report) |-> report[i].key]

PhaseOneActions == {"CreateDatabase", "DropDatabase", "CreateCollection", "DropCollection",
                    "UpdateCollection", "EnsureIndex", "DropIndex", "ResignShardLeadership"}

\* C11: when diffPlanLocal raises inside phaseOne, none of the actions of
\* phase one reaches the action queue, the error is logged, and phaseOne
\* returns to its caller, which goes on with the Plan member of the report.
C11_FailedDiffQueuesNothing ==
  Handled /\ diffPlanLocalThrows(plan, local, serverId) =>
     /\ \A i \in 1..Len(queue) : queue[i].name \notin PhaseOneActions
     /\ "Error executing plan" \in Range(log)
     /\ pc = "returned"
     /\ Len(report) >= 2 /\ report[1].key = "phaseOne" /\ report[2].key = "Plan"

\* the diff raises on a held shard without leader entry while Local holds a
\* database Plan does not know, which a complete diff would drop
C11_Witness ==
  /\ Handled
  /\ diffPlanLocalThrows(plan, local, serverId)
  /\ HasKey(plan, COLLECTIONS)
  /\ HasKey(local, "d2")
  /\ queue = <<>>

SyncQueued == SelectSeq(queue, LAMBDA a : a.name = "SynchronizeShard")

ReportRaised == reportInCurrentOutcome(plan, current, local, serverId, vocbases).thrown

\* C12: in phaseTwo an exception of reportInCurrent is logged and
\* syncReplicatedShardsWithLeaders still runs and queues its SynchronizeShard
\* actions; an exception of syncReplicatedShardsWithLeaders is logged and
\* phaseTwo returns to its caller.
C12_PhaseTwoStepsBounded ==
  Handled =>
     /\ ReportRaised =>
          /\ "Error reporting in current" \in Range(log)
          /\ ~syncThrows(plan, current, local, serverId) =>
                SyncQueued = syncReplicatedShardsWithLeaders(plan, current, local, serverId)
     /\ syncThrows(plan, current, local, serverId) =>
          /\ "Error scheduling shards" \in Range(log)
          /\ pc = "returned"
          /\ report[Len(report)].key = "Current"

\* reportInCurrent raises on the empty server list of a shard this node
\* follows, and the SynchronizeShard for that shard is queued all the same
C12_Witness ==
  /\ Handled
  /\ ReportRaised
  /\ "Error reporting in current" \in Range(log)
  /\ \E i \in 1..Len(queue) : queue[i].name = "SynchronizeShard" /\ queue[i].shard = "s1"

\* C13: handleChange executes phaseOne and then phaseTwo, also when
\* diffPlanLocal raised inside phaseOne, and the members of its report are
\* phaseOne, Plan, phaseTwo and Current, in this order.
C13_BothPhasesAlways ==
  Handled => ReportKeys = <<"phaseOne", "Plan", "phaseTwo", "Current">>

\* the diff raised, and phaseTwo afterwards wrote to the report and queued a
\* SynchronizeShard
C13_Witness ==
  /\ Handled
  /\ "Error executing plan" \in Range(log)
  /\ ReportKeys = <<"phaseOne", "Plan", "phaseTwo", "Current">>
  /\ report[3].value # <<>>
  /\ SyncQueued # <<>>

\* C14: whatever Plan, Current and Local lack, handleChange with its two
\* phases returns to its caller.
C14_NoExceptionEscapes == Handled => pc = "returned"

\* Plan and Current without Version, a local shard without leader entry:
\* both passes over it raised, and the call returned
C14_Witness ==
  /\ pc = "returned"
  /\ ~HasKey(plan, "Version")
  /\ ~HasKey(current, "Version")
  /\ \E d \in DOMAIN local : \E x \in DOMAIN local[d] : ~HasKey(local[d][x], LEADER)
  /\ log = <<"Error executing plan", "Error reporting in current">>

(***************************************************************************)
(* System shards.                                                          *)
(***************************************************************************)
\* the shard an action works on: SHARD of CreateCollection and
\* ResignShardLeadership, COLLECTION of the other shard actions
TargetShard(a) ==
  IF a.name \in {"CreateCollection", "ResignShardLeadership", "SynchronizeShard"} THEN a.shard
  ELSE IF a.name \in {"UpdateCollection", "EnsureIndex", "DropIndex", "DropCollection"}
  THEN a.collection
  ELSE "no shard"

\* C15: no action of a diffPlanLocal pass works on a shard whose name begins
\* with '_', whether the shard is in Plan or in Local.
C15_NoSystemShardAction ==
  Diffed => \A i \in 1..Len(actions) : ~FrontIsUnderscore(TargetShard(actions[i]))

(***************************************************************************)
(* Write scope of the CurrentReporter.                                     *)
(***************************************************************************)
OwnDatabasePath(path, sid) ==
  \E d \in DBs : path = CURRENT_DATABASES \o d \o "/" \o sid

\* node sid with Local loc leads the shard at d/c/s: its Local leader field is
\* empty, or the server list of Current's entry has sid first
Leads(cur, loc, sid, d, c, s) ==
  \/ /\ HasShard(loc, d, s)
     /\ loc[d][s][LEADER] = ""
     /\ loc[d][s][PLAN_ID] = c
  \/ /\ HasPath3(cur[COLLECTIONS], d, c, s)
     /\ HasKey(cur[COLLECTIONS][d][c][s], SERVERS)
     /\ cur[COLLECTIONS][d][c][s][SERVERS] # <<>>
     /\ Head(cur[COLLECTIONS][d][c][s][SERVERS]) = sid

ShardPaths(d, c, s) ==
  {CURRENT_COLLECTIONS \o d \o "/" \o c \o "/" \o s,
   CURRENT_COLLECTIONS \o d \o "/" \o c \o "/" \o s \o "/" \o SERVERS}

LedShardPath(path, cur, loc, sid) ==
  \E d \in DBs : \E c \in Range(KeyOrder) : \E s \in Range(KeyOrder) :
     path \in ShardPaths(d, c, s) /\ Leads(cur, loc, sid, d, c, s)

\* C16: every operation of reportInCurrent is written at
\* Current/Databases/<db>/<serverId> of this node, or at the entry (or the
\* server list of the entry) of a shard this node leads.
C16_WriteScope ==
  Reported =>
    \A i \in 1..Len(report) :
       \/ OwnDatabasePath(report[i].path, serverId)
       \/ LedShardPath(report[i].path, current, local, serverId)

\* the pass rewrites the server list, of more than one server, of a shard it
\* follows and reports its database
C16_Witness ==
  /\ Reported
  /\ \E i \in 1..Len(report) : report[i].path = CURRENT_COLLECTIONS \o "d1/c1/s1/servers"
  /\ \E i \in 1..Len(report) : OwnDatabasePath(report[i].path, serverId)
  /\ Len(current[COLLECTIONS]["d1"]["c1"]["s1"][SERVERS]) > 1

(***************************************************************************)
(* Order of the action queue.                                              *)
(***************************************************************************)
\* what each phase generates, nothing when its pass raised
GeneratedByPhaseOne ==
  IF diffPlanLocalThrows(plan, local, serverId) THEN <<>>
  ELSE diffPlanLocal(plan, local, serverId)

GeneratedByPhaseTwo ==
  IF syncThrows(plan, current, local, serverId) THEN <<>>
  ELSE syncReplicatedShardsWithLeaders(plan, current, local, serverId)

\* C19: the queue receives every action a phase generated exactly once and in
\* the order of generation, and every action of phase one stands in the queue
\* before every SynchronizeShard of phase two.
C19_QueuedOnceInOrder ==
  Handled =>
     /\ queue = GeneratedByPhaseOne \o GeneratedByPhaseTwo
     /\ \A i, j \in 1..Len(queue) :
           queue[i].name \in PhaseOneActions /\ queue[j].name = "SynchronizeShard" => i < j

\* phase one generated two different actions and phase two a SynchronizeShard
C19_Witness ==
  /\ Handled
  /\ Len(GeneratedByPhaseOne) >= 2
  /\ GeneratedByPhaseOne[1] # GeneratedByPhaseOne[2]
  /\ GeneratedByPhaseTwo # <<>>
  /\ Len(queue) = Len(GeneratedByPhaseOne) + Len(GeneratedByPhaseTwo)

(***************************************************************************)
(* Two nodes reporting against the same Plan and Current.  Each node has   *)
(* its own Local and storage; nodes[n] holds them with the report of the   *)
(* node's pass.                                                            *)
(***************************************************************************)
\* the Local of node n: nothing, database d1 without shards, or d1 with shard
\* s1 of collection c1 which the node leads or follows
PairLocals(n) ==
  {EmptyObject, [d \in {"d1"} |-> EmptyObject]}
  \union {[d \in {"d1"} |-> [s \in {"s1"} |->
             LocalShard("c1", ldr, 1, <<IxPrimary>>)]] : ldr \in {"", Other(n)}}

PairPlans ==
  {PlanDoc({"d1"}, [d \in DBs |-> [c \in {"c1"} |->
      PlanCollection(<<IxPrimary>>, [s \in held |-> l])]]) :
        held \in {{}, {"s1"}}, l \in {<<"A", "B">>, <<"B", "A">>}}

PairCurrents ==
  {EmptyCurrent}
  \union {[Databases |-> [d \in cdb |-> [x \in ServerIds |-> [name |-> d]]],
           Collections |-> [d \in {"d1"} |-> [c \in {"c1"} |-> [s \in {"s1"} |->
                              CurrentEntry(l, <<IxPrimary>>)]]],
           Version |-> 1] :
            cdb \in {{}, {"d1"}},
            l \in {<<"A">>, <<"B">>, <<"A", "B">>, <<"B", "A">>}}

InitPair ==
  /\ plan \in PairPlans
  /\ current \in PairCurrents
  /\ \E la \in PairLocals("A"), lb \in PairLocals("B") :
        nodes = [n \in ServerIds |->
                   LET loc == IF n = "A" THEN la ELSE lb
                   IN  [local |-> loc, vocbases |-> StorageOf(loc),
                        report |-> <<>>, done |-> FALSE]]
  /\ serverId = "A"
  /\ local = EmptyObject
  /\ vocbases = EmptyObject
  /\ actions = <<>>
  /\ report = <<>>
  /\ pc = "idle"
  /\ passNo = 0
  /\ queue = <<>>
  /\ log = <<>>
  /\ runs = <<>>
  /\ conn = NoConnection

\* node n runs reportInCurrent on the shared Plan and Current; the other node
\* may have run before it or run after it
NodeReports(n) ==
  /\ ~nodes[n].done
  /\ nodes' = [nodes EXCEPT
                 ![n].report = reportInCurrent(plan, current, nodes[n].local, n,
                                               nodes[n].vocbases),
                 ![n].done = TRUE]
  /\ UNCHANGED <<plan, local, current, serverId, vocbases, actions, report, pc,
                 passNo, queue, log, runs, conn>>

NextPair == \E n \in ServerIds : NodeReports(n)

SpecPair == InitPair /\ [][NextPair]_vars

\* a Current path as the sequence of its segments
RECURSIVE PathString(_)
PathString(segs) ==
  IF Len(segs) = 1 THEN "Current/" \o segs[1]
  ELSE PathString(SubSeq(segs, 1, Len(segs) - 1)) \o "/" \o segs[Len(segs)]

PathUniverse ==
  LET names == Range(KeyOrder)
  IN  {<<"Databases", d>> : d \in DBs}
      \union {<<"Databases", d, n>> : d \in DBs, n \in ServerIds}
      \union {<<COLLECTIONS, d>> : d \in DBs}
      \union {<<COLLECTIONS, d, c>> : d \in DBs, c \in names}
      \union {<<COLLECTIONS, d, c, x>> : d \in DBs, c \in {"c1", "c2"}, x \in names}
      \union {<<COLLECTIONS, d, c, x, SERVERS>> : d \in DBs, c \in {"c1", "c2"}, x \in names}

Segments(path) == CHOOSE segs \in PathUniverse : PathString(segs) = path

IsPrefix(p, q) == Len(p) <= Len(q) /\ SubSeq(q, 1, Len(p)) = p

WrittenPaths(n) == {Segments(nodes[n].report[i].path) : i \in 1..Len(nodes[n].report)}

BothReported == \A n \in ServerIds : nodes[n].done

\* p and q are different paths and neither lies below the other
Apart(p, q) == ~IsPrefix(p, q) /\ ~IsPrefix(q, p)

\* C17: when two different nodes have run reportInCurrent against the same
\* Plan and Current, in either order, no path written by one is a path
\* written by the other or a prefix of it.
C17_WritesIndependent ==
  BothReported =>
    \A n, m \in ServerIds : n # m =>
       \A p \in WrittenPaths(n), q \in WrittenPaths(m) : Apart(p, q)

\* some shard is led by both nodes: each has the leader field empty in its
\* Local or stands first in the server list of Current
LedByBoth(n, m) ==
  \E d \in DBs : \E c \in Range(KeyOrder) : \E x \in Range(KeyOrder) :
     /\ Leads(current, nodes[n].local, n, d, c, x)
     /\ Leads(current, nodes[m].local, m, d, c, x)

\* C17, amended: the paths written by two different nodes are different and
\* none is a prefix of another, provided no shard is led by both nodes.
C17_WritesIndependentOfLedApart ==
  BothReported =>
    \A n, m \in ServerIds : n # m /\ ~LedByBoth(n, m) =>
       \A p \in WrittenPaths(n), q \in WrittenPaths(m) : Apart(p, q)

\* both nodes wrote, one of them the snapshot of the shard it leads and the
\* other its database entry, and no shard is led by both
C17_Witness ==
  /\ BothReported
  /\ ~LedByBoth("A", "B")
  /\ <<COLLECTIONS, "d1", "c1", "s1">> \in WrittenPaths("A")
  /\ <<"Databases", "d1", "B">> \in WrittenPaths("B")
  /\ <<"Databases", "d1", "A">> \in WrittenPaths("A")

(***************************************************************************)
(* The three passes run again and again by one node on the same Plan,      *)
(* Current and Local, while the storage collaborator changes between the   *)
(* runs.  runs records, for every run, the storage it met and what the     *)
(* passes produced.                                                        *)
(***************************************************************************)
ReplayLocals(sid) ==
  PairLocals(sid)
  \union {[d \in DBs |-> IF d = "d1" THEN loc["d1"] ELSE EmptyObject] :
            loc \in {l \in PairLocals(sid) : HasKey(l, "d1")}}

\* what Databases::lookup, lookupCollection and followers() may answer for
\* the databases and shards of Local
StorageStates(loc, sid) ==
  {StorageOf(loc), EmptyObject,
   [d \in DOMAIN loc |-> Vocbase(1, d, EmptyObject)],
   [d \in DOMAIN loc |-> Vocbase(1, d, [x \in DOMAIN loc[d] |-> <<Other(sid)>>])]}

InitReplay ==
  /\ serverId \in ServerIds
  /\ plan \in PairPlans
  /\ current \in PairCurrents
  /\ local \in ReplayLocals(serverId)
  /\ vocbases = StorageOf(local)
  /\ actions = <<>>
  /\ report = <<>>
  /\ pc = "idle"
  /\ passNo = 0
  /\ queue = <<>>
  /\ log = <<>>
  /\ nodes = <<>>
  /\ runs = <<>>
  /\ conn = NoConnection

\* one run of the three passes
RunPasses ==
  /\ Len(runs) < MaxRuns
  /\ runs' = Append(runs,
       [storage |-> vocbases,
        actions |-> diffPlanLocal(plan, local, serverId),
        sync |-> syncReplicatedShardsWithLeaders(plan, current, local, serverId),
        report |-> reportInCurrent(plan, current, local, serverId, vocbases)])
  /\ UNCHANGED <<plan, local, current, serverId, vocbases, actions, report, pc,
                 passNo, queue, log, nodes, conn>>

\* the storage engine gains or loses a follower, a collection or a database
StorageChange ==
  /\ vocbases' \in StorageStates(local, serverId) \ {vocbases}
  /\ UNCHANGED <<plan, local, current, serverId, actions, report, pc, passNo,
                 queue, log, nodes, runs, conn>>

NextReplay == RunPasses \/ StorageChange

SpecReplay == InitReplay /\ [][NextReplay]_vars

ClusterLists ==
  UNION {[1..k -> ServerIds \union {UNDERSCORE \o n : n \in ServerIds}] :
           k \in 1..MaxServers}

\* Plan: database d1 with collection c1, its shard s1 and possibly a system
\* shard _s2
ClusterPlans ==
  {PlanDoc({}, [d \in DBs |-> EmptyObject])}
  \union {PlanDoc({"d1"}, [d \in DBs |-> [c \in {"c1"} |->
             PlanCollection(<<IxPrimary>>,
                [x \in p1.held \union sys |-> IF x = "s1" THEN p1.servers ELSE <<"A">>])]]) :
            p1 \in {[held |-> {}, servers |-> <<>>]}
                   \union {[held |-> {"s1"}, servers |-> l] : l \in ClusterLists},
            sys \in {{}, {"_s2"}}}

\* Local of node n: no database, or d1 with any of shard s1 (led, following
\* the other node, or resigned) and a local system collection _s2
ClusterLocals(n) ==
  {EmptyObject}
  \union {[d \in {"d1"} |-> [x \in l1.held \union sys |->
             LocalShard("c1", IF x = "s1" THEN l1.leader ELSE "", 1, <<IxPrimary>>)]] :
            l1 \in {[held |-> {}, leader |-> ""]}
                   \union {[held |-> {"s1"}, leader |-> ldr] :
                             ldr \in {"", Other(n), ResignedLeader(n)}},
            sys \in {{}, {"_s2"}}}

InitCluster ==
  /\ plan \in ClusterPlans
  /\ \E la \in ClusterLocals("A"), lb \in ClusterLocals("B") :
        nodes = [n \in ServerIds |->
                   [local |-> IF n = "A" THEN la ELSE lb,
                    actions |-> <<>>, done |-> FALSE]]
  /\ current = EmptyCurrent
  /\ serverId = "A"
  /\ local = EmptyObject
  /\ vocbases = EmptyObject
  /\ actions = <<>>
  /\ report = <<>>
  /\ pc = "idle"
  /\ passNo = 0
  /\ queue = <<>>
  /\ log = <<>>
  /\ runs = <<>>
  /\ conn = NoConnection

\* node n runs diffPlanLocal and its executor applies the actions
NodeReconciles(n) ==
  /\ ~nodes[n].done
  /\ LET acts == diffPlanLocal(plan, nodes[n].local, n)
     IN  nodes' = [nodes EXCEPT ![n].actions = acts,
                                ![n].local = applyActions(nodes[n].local, acts, n),
                                ![n].done = TRUE]
  /\ UNCHANGED <<plan, local, current, serverId, vocbases, actions, report, pc,
                 passNo, queue, log, runs, conn>>

NextCluster == \E n \in ServerIds : NodeReconciles(n)

SpecCluster == InitCluster /\ [][NextCluster]_vars

AllReconciled == \A n \in ServerIds : nodes[n].done

\* the nodes whose Local entry for shard x of database d has leader = ""
LeadersOf(d, x) ==
  {n \in ServerIds : HasShard(nodes[n].local, d, x) /\ nodes[n].local[d][x][LEADER] = ""}

\* C20: once every node has applied the actions of its diffPlanLocal pass over
\* the same Plan, at most one node's Local entry for any shard has
\* leader = "".
C20_AtMostOneLeader ==
  AllReconciled =>
    \A d \in DBs : \A x \in Range(KeyOrder) : Cardinality(LeadersOf(d, x)) <= 1

\* C20, amended: the same for every shard whose name does not begin with '_'.
C20_AtMostOneLeaderOfUserShard ==
  AllReconciled =>
    \A d \in DBs : \A x \in Range(KeyOrder) :
       ~FrontIsUnderscore(x) => Cardinality(LeadersOf(d, x)) <= 1

\* both nodes held s1 with leader = "" before their passes; A was told to
\* resign and did, B was updated to follow the resigning leader, and A's
\* entry carries the resignation mark
C20_Witness ==
  /\ AllReconciled
  /\ \E i \in 1..Len(nodes["A"].actions) :
        nodes["A"].actions[i].name = "ResignShardLeadership"
  /\ \E i \in 1..Len(nodes["B"].actions) :
        /\ nodes["B"].actions[i].name = "UpdateCollection"
        /\ nodes["B"].actions[i].localLeader = ""
  /\ nodes["A"].local["d1"]["s1"][LEADER] = ResignedLeader("A")
  /\ LeadersOf("d1", "s1") = {}

(***************************************************************************)
(* Further properties of the DiffEngine.                                   *)
(***************************************************************************)
\* the local shards handleLocalShard is called for: not system, in a
\* database that Plan/Collections knows
LocallyHandled(pl, loc) ==
  {<<d, s>> \in DBs \X Range(KeyOrder) :
     /\ HasKey(pl[COLLECTIONS], d)
     /\ HasShard(loc, d, s)
     /\ ~FrontIsUnderscore(s)}

\* the positions of the actions named n for shard s of database d
ActionsFor(n, d, s) ==
  {i \in 1..Len(actions) :
     /\ actions[i].name = n
     /\ actions[i].database = d
     /\ (IF n = "ResignShardLeadership" THEN actions[i].shard ELSE actions[i].collection) = s}

\* the first planned server of shard s is '_' followed by sid
ResignationPending(pl, sid, s) ==
  \E t \in PlannedShards(pl) :
     t[3] = s /\ PlannedServers(pl, t)[1] = UNDERSCORE \o sid

\* C21: a non-system local shard whose first planned server is '_' followed by
\* serverId and whose Local leader field is empty gets exactly one
\* ResignShardLeadership and, in the same pass, no DropCollection and no
\* DropIndex; a local shard whose leader field is not empty gets no
\* ResignShardLeadership.
C21_ResignationCheck ==
  Diffed =>
    \A u \in LocallyHandled(plan, local) :
       IF local[u[1]][u[2]][LEADER] = ""
       THEN ResignationPending(plan, serverId, u[2]) =>
              /\ Cardinality(ActionsFor("ResignShardLeadership", u[1], u[2])) = 1
              /\ ActionsFor("DropCollection", u[1], u[2]) = {}
              /\ ActionsFor("DropIndex", u[1], u[2]) = {}
       ELSE ActionsFor("ResignShardLeadership", u[1], u[2]) = {}

\* a led shard with a local index other than primary and edge is told to
\* resign, and the same pass drops another shard
C21_Witness ==
  /\ Diffed
  /\ \E u \in LocallyHandled(plan, local) :
        /\ local[u[1]][u[2]][LEADER] = ""
        /\ ResignationPending(plan, serverId, u[2])
        /\ \E m \in 1..Len(local[u[1]][u[2]][INDEXES]) :
              local[u[1]][u[2]][INDEXES][m][TYPE] \notin {PRIMARY, EDGE}
        /\ ActionsFor("ResignShardLeadership", u[1], u[2]) # {}
  /\ "DropCollection" \in ActionNames(actions)

(***************************************************************************)
(* The coordination store applies the operations of a report to Current    *)
(* (an external collaborator): set puts the payload at the path, creating  *)
(* the objects above it, delete removes what is at the path.               *)
(***************************************************************************)
RECURSIVE SetAt(_, _, _)
SetAt(obj, segs, v) ==
  IF Len(segs) = 1 THEN With(obj, segs[1], v)
  ELSE With(obj, segs[1],
            SetAt(IF HasKey(obj, segs[1]) THEN obj[segs[1]] ELSE EmptyObject,
                  Tail(segs), v))

RECURSIVE DeleteAt(_, _)
DeleteAt(obj, segs) ==
  IF ~HasKey(obj, segs[1]) THEN obj
  ELSE IF Len(segs) = 1 THEN Without(obj, segs[1])
  ELSE With(obj, segs[1], DeleteAt(obj[segs[1]], Tail(segs)))

applyOp(cur, op) ==
  IF op.op = VP_SET THEN SetAt(cur, Segments(op.path), op.payload)
  ELSE DeleteAt(cur, Segments(op.path))

RECURSIVE applyReport(_, _)
applyReport(cur, ops) ==
  IF ops = <<>> THEN cur ELSE applyReport(applyOp(cur, Head(ops)), Tail(ops))

(***************************************************************************)
(* Further properties of the CurrentReporter.                              *)
(***************************************************************************)
\* the report of the pass that follows once the report was applied to Current
NextReportOps ==
  reportInCurrent(plan, applyReport(current, report), local, serverId, vocbases)

\* the local shards this node follows while Current lists it first
StaleLeaderships ==
  {<<d, x>> \in DBs \X Range(KeyOrder) :
     /\ HasShard(local, d, x)
     /\ ~FrontIsUnderscore(x)
     /\ local[d][x][LEADER] # ""
     /\ HasPath3(current[COLLECTIONS], d, local[d][x][PLAN_ID], x)
     /\ listsUsFirst(current[COLLECTIONS][d][local[d][x][PLAN_ID]][x], serverId)}

ServersPath(d, c, x) ==
  CURRENT_COLLECTIONS \o d \o "/" \o c \o "/" \o x \o "/" \o SERVERS

\* C22: for a non-system local shard this node follows and whose server list
\* in Current has serverId first, the pass emits one set operation at
\* Current/Collections/<db>/<planId>/<shard>/servers whose payload is that
\* list with the first entry changed to '_' followed by serverId; the pass
\* after the report was applied emits no operation at that path.
C22_ResignationReported ==
  Reported =>
    \A u \in StaleLeaderships :
       LET c == local[u[1]][u[2]][PLAN_ID]
           srv == current[COLLECTIONS][u[1]][c][u[2]][SERVERS]
           at == {i \in 1..Len(report) : report[i].path = ServersPath(u[1], c, u[2])}
       IN  /\ Cardinality(at) = 1
           /\ \A i \in at :
                /\ report[i].op = VP_SET
                /\ report[i].payload =
                     [k \in 1..Len(srv) |-> IF k = 1 THEN UNDERSCORE \o serverId ELSE srv[k]]
           /\ \A k \in 1..Len(NextReportOps) :
                NextReportOps[k].path # ServersPath(u[1], c, u[2])

\* a followed shard whose list in Current names this node first and a
\* second server, and the pass reports more than the server list
C22_Witness ==
  /\ Reported
  /\ \E u \in StaleLeaderships :
        Len(current[COLLECTIONS][u[1]][local[u[1]][u[2]][PLAN_ID]][u[2]][SERVERS]) > 1
  /\ Len(report) > 1

(***************************************************************************)
(* diffPlanLocal over a shard whose Local properties differ from Plan in   *)
(* any of the compared properties, in replicationFactor and in the leader  *)
(* role.                                                                   *)
(***************************************************************************)
LocalShardWith(leader, js, wfs, dc, ib, rf) ==
  [planId |-> "c1", leader |-> leader, journalSize |-> js, waitForSync |-> wfs,
   doCompact |-> dc, indexBuckets |-> ib, replicationFactor |-> rf,
   indexes |-> <<IxPrimary>>]

InitProps ==
  /\ serverId \in ServerIds
  /\ \E l \in ServerLists(serverId) :
        plan = PlanDoc({"d1"}, [d \in DBs |-> [c \in {"c1"} |->
                  PlanCollection(<<IxPrimary>>, [x \in {"s1"} |-> l])]])
  /\ \E ldr \in {"", Other(serverId)}, js \in {1, 2}, wfs \in BOOLEAN, dc \in BOOLEAN,
        ib \in {8, 16}, rf \in {1, 2} :
        local = [d \in {"d1"} |-> [x \in {"s1"} |->
                   LocalShardWith(ldr, js, wfs, dc, ib, rf)]]
  /\ current = EmptyCurrent
  /\ vocbases = EmptyObject
  /\ actions = <<>>
  /\ report = <<>>
  /\ pc = "idle"
  /\ passNo = 0
  /\ queue = <<>>
  /\ log = <<>>
  /\ nodes = <<>>
  /\ runs = <<>>
  /\ conn = NoConnection

SpecProps == InitProps /\ [][NextDiff]_vars

\* the four properties of the claim
Whitelisted == {"journalSize", "waitForSync", "doCompact", "indexBuckets"}

\* C23: for a shard assigned to this node and present in Local, the pass
\* emits an UpdateCollection exactly when one of journalSize, waitForSync,
\* doCompact, indexBuckets differs between Plan and Local or the leader role
\* in Local is not the planned one; the action carries LEADER (empty when the
\* node is the first planned server, else that server), LOCAL_LEADER (the
\* Local leader field) and as payload the differing properties with their
\* planned values.
C23_UpdateWhenDue ==
  Diffed =>
    \A t \in Compared(plan, local, serverId) :
       LET col == plan[COLLECTIONS][t[1]][t[2]]
           lcol == local[t[1]][t[3]]
           first == PlannedServers(plan, t)[1]
           differing == {q \in Whitelisted : col[q] # lcol[q]}
           due == differing # {} \/ ((lcol[LEADER] = "") # (first = serverId))
           ups == ActionsFor("UpdateCollection", t[1], t[3])
       IN  /\ (ups # {}) <=> due
           /\ \A i \in ups :
                /\ actions[i].leader = (IF first = serverId THEN "" ELSE first)
                /\ actions[i].localLeader = lcol[LEADER]
                /\ actions[i].properties = [q \in differing |-> col[q]]

\* Local differs from Plan in replicationFactor only and no UpdateCollection
\* is emitted
C23_Witness ==
  /\ Diffed
  /\ passNo = 1
  /\ \E t \in Compared(plan, local, serverId) :
        LET col == plan[COLLECTIONS][t[1]][t[2]]
            lcol == local[t[1]][t[3]]
        IN  /\ col["replicationFactor"] # lcol["replicationFactor"]
            /\ \A q \in Whitelisted : col[q] = lcol[q]
            /\ (lcol[LEADER] = "") <=> (PlannedServers(plan, t)[1] = serverId)
  /\ "UpdateCollection" \notin ActionNames(actions)

(***************************************************************************)
(* Database actions of the DiffEngine.                                     *)
(***************************************************************************)
DatabaseActions(n, d) ==
  {i \in 1..Len(actions) : actions[i].name = n /\ actions[i].database = d}

\* C24: one pass emits exactly one CreateDatabase for each database of Plan
\* that Local lacks, exactly one DropDatabase for each database of Local that
\* Plan lacks, and no database action for a database in both.
C24_DatabaseDiff ==
  Diffed =>
    \A d \in DBs :
       /\ Cardinality(DatabaseActions("CreateDatabase", d)) =
            (IF HasKey(plan["Databases"], d) /\ ~HasKey(local, d) THEN 1 ELSE 0)
       /\ Cardinality(DatabaseActions("DropDatabase", d)) =
            (IF HasKey(local, d) /\ ~HasKey(plan["Databases"], d) THEN 1 ELSE 0)

(***************************************************************************)
(* Index drops of the DiffEngine.                                          *)
(***************************************************************************)
\* the index identities the Plan pass records: shard/id of every planned
\* index, other than primary and edge, of a shard assigned to sid and held
RecordedIndexes(pl, loc, sid) ==
  UNION {{t[3] \o "/" \o pl[COLLECTIONS][t[1]][t[2]][INDEXES][k][ID] :
            k \in {m \in 1..Len(pl[COLLECTIONS][t[1]][t[2]][INDEXES]) :
                     pl[COLLECTIONS][t[1]][t[2]][INDEXES][m][TYPE] \notin {PRIMARY, EDGE}}} :
         t \in Compared(pl, loc, sid)}

\* the local shards the Local pass keeps: neither resigning nor dropped
Kept ==
  {u \in LocallyHandled(plan, local) :
     /\ ActionsFor("ResignShardLeadership", u[1], u[2]) = {}
     /\ ActionsFor("DropCollection", u[1], u[2]) = {}}

IndexDrops(d, x, id) ==
  {i \in ActionsFor("DropIndex", d, x) : actions[i].index = id}

\* C25: for a kept local shard the pass emits a DropIndex for every local
\* index that is neither primary nor edge and whose identity the Plan pass did
\* not record, and no DropIndex for any other local index.
C25_IndexDropRule ==
  Diffed =>
    \A u \in Kept :
       LET lix == local[u[1]][u[2]][INDEXES]
       IN  /\ \A m \in 1..Len(lix) :
                (IndexDrops(u[1], u[2], lix[m][ID]) # {}) <=>
                   /\ lix[m][TYPE] \notin {PRIMARY, EDGE}
                   /\ (u[2] \o "/" \o lix[m][ID]) \notin RecordedIndexes(plan, local, serverId)
           /\ \A i \in ActionsFor("DropIndex", u[1], u[2]) :
                \E m \in 1..Len(lix) : lix[m][ID] = actions[i].index

\* a kept shard whose local index was recorded and is not dropped, while the
\* same pass drops an index of a kept shard
C25_Witness ==
  /\ Diffed
  /\ \E u \in Kept :
        \E m \in 1..Len(local[u[1]][u[2]][INDEXES]) :
           /\ local[u[1]][u[2]][INDEXES][m][TYPE] \notin {PRIMARY, EDGE}
           /\ (u[2] \o "/" \o local[u[1]][u[2]][INDEXES][m][ID])
                 \in RecordedIndexes(plan, local, serverId)
           /\ IndexDrops(u[1], u[2], local[u[1]][u[2]][INDEXES][m][ID]) = {}
  /\ \E u \in Kept : ActionsFor("DropIndex", u[1], u[2]) # {}

(***************************************************************************)
(* The membership sets after the pass.                                     *)
(***************************************************************************)
\* the shard names left in the shard-membership set after the Local pass
\* that the Local pass met in Local
ShardsLeftOver(pl, loc, sid) ==
  {u \in LocallyHandled(pl, loc) : u[2] \in diffPlanLocalState(pl, loc, sid).colis}

\* the index identities left in the index-membership set after the Local
\* pass that the Local pass met among the indexes of a kept local shard
IndexesLeftOver(pl, loc, sid) ==
  {u \in Kept :
     \E m \in 1..Len(loc[u[1]][u[2]][INDEXES]) :
        (u[2] \o "/" \o loc[u[1]][u[2]][INDEXES][m][ID])
           \in diffPlanLocalState(pl, loc, sid).indis}

\* C26: after the Local pass the membership sets hold no shard name and no
\* index identity that the Local pass found in Local.
C26_MembershipConsumed ==
  Diffed =>
    /\ ShardsLeftOver(plan, local, serverId) = {}
    /\ IndexesLeftOver(plan, local, serverId) = {}

(***************************************************************************)
(* The backward pass of reportInCurrent.                                   *)
(***************************************************************************)
\* the shard entries of Current/Collections
CurrentShards ==
  {t \in DBs \X Range(KeyOrder) \X Range(KeyOrder) :
     HasPath3(current[COLLECTIONS], t[1], t[2], t[3])}

\* the positions of the delete operations of the report at a path
DeletesAt(path) ==
  {i \in 1..Len(report) : report[i].op = VP_DELETE /\ report[i].path = path}

\* the shard entry lists serverId first, Local has no such shard under the
\* database and Plan's shard map has no such shard
Retractable(t) ==
  /\ listsUsFirst(current[COLLECTIONS][t[1]][t[2]][t[3]], serverId)
  /\ ~HasShard(local, t[1], t[3])
  /\ ~HasKey(getShardMap(plan[COLLECTIONS]), t[3])

\* C27: the pass emits a delete at Current/Collections/<db>/<collection>/<shard>
\* exactly for the shard entries of Current that list serverId first, have no
\* entry in Local under that database and whose name is absent from Plan's
\* shard map.
C27_ShardRetraction ==
  Reported =>
    \A t \in CurrentShards :
       (DeletesAt(CURRENT_COLLECTIONS \o t[1] \o "/" \o t[2] \o "/" \o t[3]) # {})
          <=> Retractable(t)

\* Current holds a report entry of serverId under Databases for d while d is
\* absent from both Local and Plan
StaleDatabase(cur, d) ==
  /\ HasKey(cur["Databases"], d)
  /\ HasKey(cur["Databases"][d], serverId)
  /\ ~HasKey(local, d)
  /\ ~HasKey(plan[COLLECTIONS], d)

DatabasePath(d) == CURRENT_DATABASES \o d \o "/" \o serverId

\* C28: the pass emits a delete at Current/Databases/<db>/<serverId> exactly
\* for the databases of which Current holds a report entry of serverId under
\* Databases while the database is absent from both Local and Plan; the pass
\* after the report was applied to Current emits no delete for that database.
C28_DatabaseRetraction ==
  Reported =>
    \A d \in DBs :
       /\ (DeletesAt(DatabasePath(d)) # {}) <=> StaleDatabase(current, d)
       /\ StaleDatabase(current, d) =>
            \A k \in 1..Len(NextReportOps) :
               ~(NextReportOps[k].op = VP_DELETE /\ NextReportOps[k].path = DatabasePath(d))

(***************************************************************************)
(* The database report of the forward pass.                                *)
(***************************************************************************)
\* the positions of the operations of the report at a path
OpsAtPath(path) == {i \in 1..Len(report) : report[i].path = path}

\* Current has no entry of serverId for d under Databases and storage
\* resolves d
DatabaseDue(d) ==
  /\ ~(HasKey(current["Databases"], d) /\ HasKey(current["Databases"][d], serverId))
  /\ HasKey(vocbases, d)

\* C29: for every local database the pass emits one set operation at
\* Current/Databases/<db>/<serverId> with payload (error = false, errorNum = 0,
\* empty errorMessage, database id, database name) when Current has no entry
\* at that path and storage resolves the database, and no operation at that
\* path when the database is not resolved or the entry already exists.
C29_DatabaseReport ==
  Reported =>
    \A d \in DOMAIN local :
       IF DatabaseDue(d)
       THEN /\ Cardinality(OpsAtPath(DatabasePath(d))) = 1
            /\ \A i \in OpsAtPath(DatabasePath(d)) :
                 /\ report[i].op = VP_SET
                 /\ report[i].payload =
                      [error |-> FALSE, errorNum |-> 0, errorMessage |-> "",
                       id |-> ToString(vocbases[d].id), name |-> vocbases[d].name]
       ELSE OpsAtPath(DatabasePath(d)) = {}

\* one local database is due and written, and another local database has no
\* entry in Current and is not resolved by storage
C29_Witness ==
  /\ Reported
  /\ \E d \in DOMAIN local, e \in DOMAIN local :
        /\ DatabaseDue(d)
        /\ OpsAtPath(DatabasePath(d)) # {}
        /\ ~HasKey(vocbases, e)
        /\ ~HasKey(current["Databases"], e)

(***************************************************************************)
(* reportInCurrent over two led shards of one database, of which storage   *)
(* resolves both, one or none, followed by a second database.              *)
(***************************************************************************)
\* what Current may hold for a led shard: nothing, the entry the leader
\* would write without followers, or an entry with a follower
SkipEntryChoices(sid) ==
  {Absent,
   [present |-> TRUE, entry |-> CurrentEntry(<<sid>>, <<IxPrimary>>)],
   [present |-> TRUE, entry |-> CurrentEntry(<<sid, Other(sid)>>, <<IxPrimary>>)]}

InitSkip ==
  /\ serverId \in ServerIds
  /\ \E ld \in {{"d1"}, {"d1", "d2"}}, cdb \in SUBSET DBs :
       \E vd \in SUBSET ld,
          e1 \in SkipEntryChoices(serverId),
          e2 \in SkipEntryChoices(serverId) :
         \E found \in (IF "d1" \in vd THEN SUBSET {"s1", "s2"} ELSE {{}}) :
            /\ plan = PlanDoc(ld, [d \in DBs |->
                        IF d = "d1"
                        THEN [c \in {"c1"} |-> PlanCollection(<<IxPrimary>>,
                                [s \in {"s1", "s2"} |-> <<serverId>>])]
                        ELSE EmptyObject])
            /\ local = [d \in ld |->
                          IF d = "d1"
                          THEN [s \in {"s1", "s2"} |-> LocalShard("c1", "", 1, <<IxPrimary>>)]
                          ELSE EmptyObject]
            /\ vocbases = [d \in vd |->
                             IF d = "d1"
                             THEN Vocbase(1, d, [s \in found |-> <<>>])
                             ELSE Vocbase(2, d, EmptyObject)]
            /\ current = [Databases |-> [d \in cdb |-> [x \in {serverId} |-> [name |-> d]]],
                          Collections |->
                            [d \in {"d1"} |->
                               [c \in {"c1"} |->
                                  [s \in (IF e1.present THEN {"s1"} ELSE {}) \union
                                         (IF e2.present THEN {"s2"} ELSE {}) |->
                                     IF s = "s1" THEN e1.entry ELSE e2.entry]]],
                          Version |-> 1]
  /\ actions = <<>>
  /\ report = <<>>
  /\ pc = "idle"
  /\ passNo = 0
  /\ queue = <<>>
  /\ log = <<>>
  /\ nodes = <<>>
  /\ runs = <<>>
  /\ conn = NoConnection

SpecSkip == InitSkip /\ [][NextReport]_vars

\* the led shards of which storage resolves neither the database nor the
\* collection
Unresolved == {u \in LedShards : ~Resolvable(u[1], u[2])}

\* C30: for a local leader shard whose database or collection storage does
\* not resolve, the pass emits no operation for the shard, and it still emits
\* the write due for every other led shard and for every local database.
C30_LookupFailureSkips ==
  Reported =>
    \A u \in Unresolved :
       /\ WritesAt(ShardPath(u)) = {}
       /\ \A t \in LedShards \ {u} :
             Resolvable(t[1], t[2]) /\ DiffersFromCurrent(t) =>
                \E i \in 1..Len(report) : report[i] = SetOp(ShardPath(t), ExpectedSnapshot(t))
       /\ \A d \in DOMAIN local :
             DatabaseDue(d) => \E i \in OpsAtPath(DatabasePath(d)) : report[i].op = VP_SET

\* storage does not resolve shard s1, and the pass then writes the snapshot
\* of shard s2 of the same database and the entry of database d2
C30_Witness ==
  /\ Reported
  /\ <<"d1", "s1">> \in Unresolved
  /\ Resolvable("d1", "s2")
  /\ \E i \in 1..Len(report) :
        report[i] = SetOp(ShardPath(<<"d1", "s2">>), ExpectedSnapshot(<<"d1", "s2">>))
  /\ HasKey(local, "d2")
  /\ OpsAtPath(DatabasePath("d2")) # {}

(***************************************************************************)
(* The order of the actions of one pass.                                   *)
(***************************************************************************)
\* the shard an action of diffPlanLocal is about
ShardOf(a) ==
  IF a.name \in {"CreateCollection", "ResignShardLeadership"} THEN a.shard ELSE a.collection

\* the positions of the actions of the given names for shard s of database d
ShardActions(names, d, s) ==
  {i \in 1..Len(actions) :
     /\ actions[i].name \in names
     /\ actions[i].database = d
     /\ ShardOf(actions[i]) = s}

Building == {"CreateCollection", "UpdateCollection", "EnsureIndex"}

Removing == {"ResignShardLeadership", "DropCollection", "DropIndex"}

\* C31: in the action list of one pass every CreateCollection,
\* UpdateCollection and EnsureIndex for a shard stands before every
\* ResignShardLeadership, DropCollection and DropIndex for that shard.
C31_BuildBeforeRemove ==
  Diffed =>
    \A d \in DBs, s \in Range(KeyOrder) :
       \A i \in ShardActions(Building, d, s), j \in ShardActions(Removing, d, s) : i < j

\* one pass holds an action of the first kind and an action of the second
\* kind for the same shard
C31_Witness ==
  /\ Diffed
  /\ \E d \in DBs, s \in Range(KeyOrder) :
        /\ ShardActions(Building, d, s) # {}
        /\ ShardActions(Removing, d, s) # {}

(***************************************************************************)
(* Local vs Current: the database transactions of diffLocalCurrent, and    *)
(* the coordination store applying a transaction (an external              *)
(* collaborator): the operation is written when every path the             *)
(* precondition marks oldEmpty is absent from the store, and nothing is    *)
(* written otherwise.                                                      *)
(***************************************************************************)
MaxApplications == 3

\* [ {"dbPath":{}}, {"dbPath":{"oldEmpty":true}} ]
addDatabaseToTransactions(name, transactions) ==
  LET dbPath == CURRENT_COLLECTIONS \o name
  IN  Append(transactions,
             [operation    |-> [p \in {dbPath} |-> EmptyObject],
              precondition |-> [p \in {dbPath} |-> [oldEmpty |-> TRUE]]])

RECURSIVE addDatabases(_, _, _)
addDatabases(names, cdbs, transactions) ==
  IF names = <<>> THEN transactions
  ELSE addDatabases(Tail(names), cdbs,
                    IF HasKey(cdbs, Head(names)) THEN transactions
                    ELSE addDatabaseToTransactions(Head(names), transactions))

\* variant: a transaction for every local database
diffLocalCurrent_EveryDatabase(loc, cur, sid, transactions) ==
  addDatabases(Keys(loc), EmptyObject, transactions)

\* the transactions after the call (lines 386-408)
diffLocalCurrent(loc, cur, sid, transactions) ==
  addDatabases(Keys(loc), cur, transactions)

RECURSIVE HasPath(_, _)
HasPath(obj, segs) ==
  IF segs = <<>> THEN TRUE
  ELSE HasKey(obj, Head(segs)) /\ HasPath(obj[Head(segs)], Tail(segs))

preconditionHolds(cur, precondition) ==
  \A p \in DOMAIN precondition :
     precondition[p].oldEmpty => ~HasPath(cur, Segments(p))

applyTransaction(cur, t) ==
  IF preconditionHolds(cur, t.precondition)
  THEN LET p == CHOOSE p \in DOMAIN t.operation : TRUE
       IN  SetAt(cur, Segments(p), t.operation[p])
  ELSE cur

\* what Current/Collections may hold of a database: nothing, an empty
\* object, or a collection with a shard entry
TransactCurrents(sid) ==
  {[Databases |-> EmptyObject, Collections |-> cols, Version |-> 1] :
     cols \in UNION {[ds -> {EmptyObject,
                             [c \in {"c1"} |->
                                [s \in {"s1"} |-> CurrentEntry(<<sid>>, <<IxPrimary>>)]]}] :
                       ds \in SUBSET DBs}}

InitTransact ==
  /\ serverId \in ServerIds
  /\ \E ld \in SUBSET DBs, full \in BOOLEAN :
        local = [d \in ld |->
                   IF full /\ d = "d1"
                   THEN [s \in {"s1"} |-> LocalShard("c1", "", 1, <<IxPrimary>>)]
                   ELSE EmptyObject]
  /\ current \in TransactCurrents(serverId)
  /\ plan = PlanDoc({}, EmptyObject)
  /\ vocbases = EmptyObject
  /\ actions = <<>>
  /\ report = <<>>
  /\ pc = "idle"
  /\ passNo = 0
  /\ queue = <<>>
  /\ log = <<>>
  /\ nodes = <<>>
  /\ runs = <<>>
  /\ conn = NoConnection

\* diffLocalCurrent is handed Current/Collections and an empty list; the
\* transactions go to the queue for the store
TransactPass ==
  /\ pc = "idle"
  /\ queue' = diffLocalCurrent(local, current[COLLECTIONS], serverId, <<>>)
  /\ pc' = "transacted"
  /\ UNCHANGED <<plan, local, current, serverId, vocbases, actions, report, passNo, log, nodes, runs, conn>>

\* the store applies one of the transactions, possibly once more
ApplyTransaction ==
  /\ pc = "transacted"
  /\ Len(log) < MaxApplications
  /\ \E i \in 1..Len(queue) :
        /\ current' = applyTransaction(current, queue[i])
        /\ log' = Append(log, i)
  /\ UNCHANGED <<plan, local, serverId, vocbases, actions, report, pc, passNo, queue, nodes, runs, conn>>

NextTransact == TransactPass \/ ApplyTransaction

SpecTransact == InitTransact /\ [][NextTransact]_vars

Transacted == pc = "transacted"

\* the positions of the transactions whose operation names the path
TransactionsAt(path) == {i \in 1..Len(queue) : HasKey(queue[i].operation, path)}

\* right after the call: one transaction for each Local database that is not
\* a key of the supplied document and none for another; operation and
\* precondition name the one path Current/Collections/<db>, the precondition
\* asks for oldEmpty, and two applications give what one gives
TransactionsAsDue ==
  Transacted /\ log = <<>> =>
    /\ \A d \in DBs :
          Cardinality(TransactionsAt(CURRENT_COLLECTIONS \o d)) =
             IF HasKey(local, d) /\ ~HasKey(current[COLLECTIONS], d) THEN 1 ELSE 0
    /\ \A i \in 1..Len(queue) :
          /\ \E d \in DBs : DOMAIN queue[i].operation = {CURRENT_COLLECTIONS \o d}
          /\ DOMAIN queue[i].precondition = DOMAIN queue[i].operation
          /\ \A p \in DOMAIN queue[i].precondition :
                queue[i].precondition[p] = [oldEmpty |-> TRUE]
          /\ applyTransaction(applyTransaction(current, queue[i]), queue[i])
               = applyTransaction(current, queue[i])

\* the store applies a transaction it applied before: Current stays as it is
ReappliedIsIdle ==
  ApplyTransaction /\ (\E k \in 1..Len(log) : log'[Len(log')] = log[k])
     => current' = current

\* C32: diffLocalCurrent appends one transaction for each Local database
\* that is not a key of the supplied Current document and none for any other
\* database; operation and precondition of a transaction name the same path
\* Current/Collections/<db> and the precondition asks for oldEmpty; a
\* transaction applied a second time leaves Current unchanged.
C32_DatabaseTransactions == []TransactionsAsDue /\ [][ReappliedIsIdle]_vars

\* a transaction was applied twice, and the first application wrote the
\* database into Current while another local database was already there
C32_Witness ==
  /\ Transacted
  /\ Len(log) = 2
  /\ log[1] = log[2]
  /\ Len(queue) = 1
  /\ Cardinality(DOMAIN local) = 2
  /\ \A d \in DOMAIN local : HasKey(current[COLLECTIONS], d)

(***************************************************************************)
(* The shard of a resigning leader.                                        *)
(***************************************************************************)
\* the local shards of planned databases whose first planned server is this
\* node marked as resigning
Resigning ==
  {u \in LocallyHandled(plan, local) : ResignationPending(plan, serverId, u[2])}

\* C33: a local shard whose first planned server is '_' followed by serverId
\* gets no DropCollection, whether Local still leads it or not.
C33_ResigningShardKept ==
  Diffed => \A u \in Resigning : ActionsFor("DropCollection", u[1], u[2]) = {}

(***************************************************************************)
(* diffPlanLocal over a shard whose local indexes have the type and the    *)
(* fields of planned indexes under the same or under another id.           *)
(***************************************************************************)
\* the index with another id
Renumbered(index, id) == [index EXCEPT ![ID] = id]

IdsPlanIndexLists == {<<IxPrimary>>, <<IxPrimary, IxHashXY>>, <<IxPrimary, IxHashXY, IxSkipXY>>}

IdsLocalIndexLists ==
  {<<IxPrimary>>,
   <<IxPrimary, IxHashXY>>,
   <<IxPrimary, Renumbered(IxHashXY, "5")>>,
   <<IxPrimary, IxSkipXY, Renumbered(IxHashXY, "5")>>,
   <<IxPrimary, IxHashX>>}

InitIds ==
  /\ serverId \in ServerIds
  /\ \E l \in ServerLists(serverId), pix \in IdsPlanIndexLists :
        plan = PlanDoc({"d1"}, [d \in DBs |-> [c \in {"c1"} |->
                  PlanCollection(pix, [x \in {"s1"} |-> l])]])
  /\ \E ldr \in {"", Other(serverId)}, lix \in IdsLocalIndexLists :
        local = [d \in {"d1"} |-> [x \in {"s1"} |-> LocalShard("c1", ldr, 1, lix)]]
  /\ current = EmptyCurrent
  /\ vocbases = EmptyObject
  /\ actions = <<>>
  /\ report = <<>>
  /\ pc = "idle"
  /\ passNo = 0
  /\ queue = <<>>
  /\ log = <<>>
  /\ nodes = <<>>
  /\ runs = <<>>
  /\ conn = NoConnection

SpecIds == InitIds /\ [][NextDiff]_vars

\* the local index has the type and the fields of a planned index of the
\* shard that is neither primary nor edge
HasTypeAndFieldsOfPlanned(lindex, pindexes) ==
  /\ lindex[TYPE] \notin {PRIMARY, EDGE}
  /\ \E k \in 1..Len(pindexes) :
        /\ pindexes[k][TYPE] = lindex[TYPE]
        /\ NormalizedEqualsArray(pindexes[k][FIELDS], lindex[FIELDS])

\* C34: a local index that has the type and the fields of a planned index of
\* its shard, so that no EnsureIndex is emitted for the planned index, gets
\* no DropIndex in the same pass, whatever its id.
C34_MatchedIndexNotDropped ==
  Diffed =>
    \A t \in Compared(plan, local, serverId) :
       \A m \in 1..Len(local[t[1]][t[3]][INDEXES]) :
          HasTypeAndFieldsOfPlanned(local[t[1]][t[3]][INDEXES][m], plan[COLLECTIONS][t[1]][t[2]][INDEXES])
             => IndexDrops(t[1], t[3], local[t[1]][t[3]][INDEXES][m][ID]) = {}

(***************************************************************************)
(* VstConnection (3rdParty/fuerte/src/VstConnection.cpp): threads calling  *)
(* sendRequest and the one thread of the io_context that runs the posted   *)
(* handlers and the completion handlers of the socket and of the timer.    *)
(* conn holds the connection: _state, _loopState (the two loop flags and   *)
(* the queue count in one atomic word), the write queue, the message       *)
(* store, the handlers posted and the asynchronous operations in flight.   *)
(* Every step is one atomic operation on _loopState or _state together     *)
(* with the thread-local work around it.  The base class AsioConnection    *)
(* (queueRequest, asyncWriteNextRequest, asyncReadSome, startConnection,   *)
(* restartConnection) is an external collaborator.                         *)
(***************************************************************************)
MaxSenders == 2

Senders == 1..MaxSenders

\* the message of sendAuthenticationRequest
AuthId == 0

Items == {AuthId} \union Senders

maintenanceVars ==
  <<plan, local, current, serverId, vocbases, actions, report, pc, passNo, queue, log,
    nodes, runs>>

\* _loopState: WRITE_LOOP_ACTIVE, READ_LOOP_ACTIVE and the queue count
LoopState(w, r, q) == [write |-> w, read |-> r, queued |-> q]

\* a value of _loopState held in a local variable that is dead
NotSeen == LoopState(FALSE, FALSE, 0)

IoIdle == [pc |-> "idle", seen |-> NotSeen, auth |-> FALSE]

Returned == [pc |-> "done", seen |-> NotSeen]

Connection(st, auth) ==
  [state        |-> st,
   auth         |-> auth,
   loopState    |-> LoopState(FALSE, FALSE, 0),
   writeQueue   |-> <<>>,
   messageStore |-> {},
   postedWrites |-> 0,
   postedReads  |-> 0,
   writing      |-> {},
   reading      |-> FALSE,
   initPending  |-> st = "Connecting",
   timer        |-> FALSE,
   threads      |-> [t \in Senders |-> [pc |-> "idle", seen |-> NotSeen]],
   io           |-> IoIdle,
   written      |-> {},
   invoked      |-> [m \in Items |-> 0],
   restarted    |-> FALSE]

\* Thread-Safe: activate the read loop (if needed)
startReading(c) ==
  IF c.loopState.read THEN c
  ELSE [c EXCEPT !.loopState.read = TRUE, !.postedReads = @ + 1]

\* Thread-Safe: Stop the read loop
stopReading(c) == [c EXCEPT !.loopState.read = FALSE]

\* the timer is cancelled when nothing waits and armed otherwise
setTimeout(c) == [c EXCEPT !.timer = (c.messageStore # {})]

\* variant: the item is stored and the read loop left as it is
prepareRequest_Unread(c, next) ==
  setTimeout([c EXCEPT !.messageStore = @ \union {next}])

\* the item enters the message store, the read loop is activated and the
\* timeout set
prepareRequest(c, next) ==
  setTimeout(startReading([c EXCEPT !.messageStore = @ \union {next}]))

\* item->_callback.invoke and item->invokeOnError: the calls are counted
invoke(c, items) ==
  [c EXCEPT !.invoked = [m \in Items |->
                           IF m \in items /\ c.invoked[m] < 2 THEN c.invoked[m] + 1
                           ELSE c.invoked[m]]]

\* the connection is torn down: the timer and the read are cancelled, a
\* write in flight ends with an error.  The connection is followed until
\* here: of a connection given up only the end of its writes is modelled.
restartConnection(c) ==
  [c EXCEPT !.state = "Disconnected", !.restarted = TRUE, !.timer = FALSE,
            !.reading = FALSE, !.postedReads = 0]

\* the next request leaves the queue and its write begins; with nothing
\* queued the pop fails and the null item is dereferenced, which ends the
\* io thread
asyncWriteNextRequest(c) ==
  IF c.writeQueue = <<>> THEN [c EXCEPT !.io.pc = "crashed"]
  ELSE LET next == Head(c.writeQueue)
       IN  prepareRequest([c EXCEPT !.loopState.queued = @ - 1,
                                    !.writeQueue = Tail(@),
                                    !.writing = @ \union {[item |-> next, loop |-> TRUE]}],
                          next)

\* the condition of the loop of startWriting
mayStartWriting(seen) == ~seen.write /\ seen.queued > 0

\* one turn of the loop of startWriting over the value seen of _loopState:
\* the compare-exchange sets WRITE_LOOP_ACTIVE and the caller posts
\* asyncWriteNextRequest, or it fails, reloads and tests the condition again
startWritingStep(c, seen) ==
  IF mayStartWriting(seen)
  THEN IF c.loopState = seen
       THEN [c |-> [c EXCEPT !.loopState.write = TRUE, !.postedWrites = @ + 1],
             seen |-> seen, done |-> TRUE]
       ELSE [c |-> c, seen |-> c.loopState, done |-> ~mayStartWriting(c.loopState)]
  ELSE [c |-> c, seen |-> seen, done |-> TRUE]

\* the condition of the loop of asyncWriteCallback
mayStopWriting(seen) == seen.write /\ seen.queued = 0

\* one turn of the loop of asyncWriteCallback that halts the write loop while
\* it is active and nothing is queued
stopWritingStep(c, seen) ==
  IF mayStopWriting(seen)
  THEN IF c.loopState = seen
       THEN [c |-> [c EXCEPT !.loopState.write = FALSE],
             seen |-> [seen EXCEPT !.write = FALSE], done |-> TRUE]
       ELSE [c |-> c, seen |-> c.loopState, done |-> ~mayStopWriting(c.loopState)]
  ELSE [c |-> c, seen |-> seen, done |-> TRUE]

\* sendRequest up to queueRequest: the request is pushed, the queue count
\* is incremented and the value of _loopState before the increment returned,
\* of which sendRequest looks at WRITE_LOOP_ACTIVE only
SendRequest(t) ==
  /\ conn.threads[t].pc = "idle"
  /\ ~conn.restarted
  /\ conn' = [conn EXCEPT !.writeQueue = Append(@, t),
                          !.loopState.queued = @ + 1,
                          !.threads[t] = [pc |-> "queued",
                                          seen |-> LoopState(conn.loopState.write, FALSE, 0)]]
  /\ UNCHANGED maintenanceVars

\* sendRequest after queueRequest: _state is loaded; a connected connection
\* whose write loop was not active starts writing, a disconnected one connects
CheckState(t) ==
  /\ conn.threads[t].pc = "queued"
  /\ ~conn.restarted
  /\ conn' =
       IF conn.state = "Connected"
       THEN [conn EXCEPT !.threads[t] =
                           IF conn.threads[t].seen.write THEN Returned
                           ELSE [pc |-> "sw_load", seen |-> NotSeen]]
       ELSE IF conn.state = "Disconnected"
       THEN [conn EXCEPT !.state = "Connecting", !.initPending = TRUE,
                         !.threads[t] = Returned]
       ELSE [conn EXCEPT !.threads[t] = Returned]
  /\ UNCHANGED maintenanceVars

\* startWriting of a sender: the load of _loopState and the test of the
\* condition of the loop
StartWritingLoad(t) ==
  /\ conn.threads[t].pc = "sw_load"
  /\ ~conn.restarted
  /\ conn' = [conn EXCEPT !.threads[t] =
                 IF mayStartWriting(conn.loopState)
                 THEN [pc |-> "sw_cas", seen |-> conn.loopState]
                 ELSE Returned]
  /\ UNCHANGED maintenanceVars

\* startWriting of a sender: one turn of its loop
StartWritingCas(t) ==
  /\ conn.threads[t].pc = "sw_cas"
  /\ ~conn.restarted
  /\ LET r == startWritingStep(conn, conn.threads[t].seen)
     IN  conn' = [r.c EXCEPT !.threads[t] =
                    IF r.done THEN Returned ELSE [pc |-> "sw_cas", seen |-> r.seen]]
  /\ UNCHANGED maintenanceVars

\* the completion handler of the write of the VST header
FinishInitialization ==
  /\ conn.io.pc = "idle"
  /\ conn.state = "Connecting"
  /\ conn.initPending
  /\ \E error \in BOOLEAN :
       conn' =
         IF error
         THEN [conn EXCEPT !.state = "Disconnected", !.initPending = FALSE,
                           !.restarted = TRUE]
         ELSE IF conn.auth
         THEN setTimeout([conn EXCEPT !.initPending = FALSE,
                                      !.messageStore = @ \union {AuthId},
                                      !.writing = @ \union {[item |-> AuthId, loop |-> FALSE]}])
         ELSE [conn EXCEPT !.initPending = FALSE, !.state = "Connected",
                           !.io = [IoIdle EXCEPT !.pc = "sw_load"]]
  /\ UNCHANGED maintenanceVars

\* the io thread runs a posted asyncWriteNextRequest
PostedWrite ==
  /\ conn.io.pc = "idle"
  /\ conn.postedWrites > 0
  /\ ~conn.restarted
  /\ conn' = asyncWriteNextRequest([conn EXCEPT !.postedWrites = @ - 1])
  /\ UNCHANGED maintenanceVars

\* the write in flight completes: with an error asyncWriteCallback drops the
\* item, invokes its callback and restarts the connection; without one the
\* handler of the authentication request stores Connected and then calls
\* asyncWriteCallback, while for a write of the loop the handler is
\* asyncWriteCallback, which loads _loopState
WriteCompletes ==
  /\ conn.io.pc = "idle"
  /\ conn.writing # {}
  /\ \E w \in conn.writing, error \in BOOLEAN :
       /\ conn.restarted => error
       /\ conn' =
            IF error
            THEN restartConnection(
                   invoke([conn EXCEPT !.writing = @ \ {w},
                                       !.messageStore = @ \ {w.item}],
                          {w.item}))
            ELSE [conn EXCEPT !.writing = @ \ {w},
                              !.written = @ \union {w.item},
                              !.state = IF w.loop THEN @ ELSE "Connected",
                              !.io = IF w.loop
                                     THEN [pc |-> IF mayStopWriting(conn.loopState)
                                                  THEN "awc_cas" ELSE "awc_rest",
                                           seen |-> conn.loopState, auth |-> FALSE]
                                     ELSE [pc |-> "awc_load", seen |-> NotSeen,
                                           auth |-> TRUE]]
  /\ UNCHANGED maintenanceVars

\* asyncWriteCallback called by the handler of the authentication request:
\* the load of _loopState
AsyncWriteCallbackLoad ==
  /\ conn.io.pc = "awc_load"
  /\ conn' = [conn EXCEPT !.io.pc = IF mayStopWriting(conn.loopState)
                                    THEN "awc_cas" ELSE "awc_rest",
                          !.io.seen = conn.loopState]
  /\ UNCHANGED maintenanceVars

\* asyncWriteCallback: one turn of the loop that halts the write loop
AsyncWriteCallbackCas ==
  /\ conn.io.pc = "awc_cas"
  /\ LET r == stopWritingStep(conn, conn.io.seen)
     IN  conn' = [r.c EXCEPT !.io.pc = IF r.done THEN "awc_rest" ELSE "awc_cas",
                             !.io.seen = r.seen]
  /\ UNCHANGED maintenanceVars

\* asyncWriteCallback after its loop: the read loop is started when the
\* value seen has it inactive, and the write loop goes on to the next
\* request when the value seen has it active; the handler of the
\* authentication request then calls startWriting
AsyncWriteCallbackRest ==
  /\ conn.io.pc = "awc_rest"
  /\ LET c1 == IF conn.io.seen.read THEN conn ELSE startReading(conn)
         c2 == IF conn.io.seen.write THEN asyncWriteNextRequest(c1) ELSE c1
     IN  conn' = IF c2.io.pc = "crashed" THEN c2
                 ELSE [c2 EXCEPT !.io = IF conn.io.auth
                                        THEN [IoIdle EXCEPT !.pc = "sw_load"]
                                        ELSE IoIdle]
  /\ UNCHANGED maintenanceVars

\* startWriting on the io thread: the load of _loopState and the test of
\* the condition of the loop
IoStartWritingLoad ==
  /\ conn.io.pc = "sw_load"
  /\ conn' = [conn EXCEPT !.io = IF mayStartWriting(conn.loopState)
                                 THEN [IoIdle EXCEPT !.pc = "sw_cas",
                                                     !.seen = conn.loopState]
                                 ELSE IoIdle]
  /\ UNCHANGED maintenanceVars

\* startWriting on the io thread: one turn of its loop
IoStartWritingCas ==
  /\ conn.io.pc = "sw_cas"
  /\ LET r == startWritingStep(conn, conn.io.seen)
     IN  conn' = [r.c EXCEPT !.io = IF r.done THEN IoIdle
                                    ELSE [conn.io EXCEPT !.seen = r.seen]]
  /\ UNCHANGED maintenanceVars

\* the io thread runs a posted asyncReadSome
PostedRead ==
  /\ conn.io.pc = "idle"
  /\ conn.postedReads > 0
  /\ conn' = [conn EXCEPT !.postedReads = @ - 1,
                          !.reading = (conn.state = "Connected")]
  /\ UNCHANGED maintenanceVars

\* processChunk for a chunk of message m: an unknown id and a chunk that
\* does not complete its message change nothing; a complete message leaves
\* the store and its callback is invoked, and but for a malformed response
\* the timer is set again
processChunk(c, m, kind) ==
  IF m \notin c.messageStore \/ kind = "partial" THEN c
  ELSE LET c1 == invoke([c EXCEPT !.timer = FALSE, !.messageStore = @ \ {m}], {m})
       IN  IF kind = "malformed" THEN c1 ELSE setTimeout(c1)

\* asyncReadCallback: an error restarts the connection; otherwise the chunks
\* received are processed and the read loop stops when the store is empty
\* and the write loop inactive, and reads on otherwise
ReadCompletes ==
  /\ conn.io.pc = "idle"
  /\ conn.reading
  /\ \E error \in BOOLEAN, m \in Items, kind \in {"partial", "complete", "malformed"} :
       /\ error => (m = AuthId /\ kind = "partial")
       /\ conn' =
            IF error THEN restartConnection(conn)
            ELSE LET c1 == processChunk(conn, m, kind)
                 IN  IF c1.messageStore = {} /\ ~c1.loopState.write
                     THEN [stopReading(c1) EXCEPT !.reading = FALSE]
                     ELSE c1
  /\ UNCHANGED maintenanceVars

\* the handler of the timer: the expired items leave the store and are
\* invoked with the timeout error; with nothing left waiting the connection
\* is restarted, otherwise the timer is set again
TimeoutFires ==
  /\ conn.io.pc = "idle"
  /\ conn.timer
  /\ \E expired \in SUBSET conn.messageStore :
       LET c1 == invoke([conn EXCEPT !.messageStore = @ \ expired], expired)
       IN  conn' = IF c1.messageStore = {} THEN restartConnection(c1)
                   ELSE setTimeout(c1)
  /\ UNCHANGED maintenanceVars

\* a connection as constructed (Disconnected) and one whose VST header is
\* being written, with and without authentication, and one that is
\* connected, where the authentication plays no part any more
InitVst ==
  /\ conn \in {Connection(st, auth) :
                 st \in {"Disconnected", "Connecting"}, auth \in BOOLEAN}
               \union {Connection("Connected", FALSE)}
  /\ serverId = "A"
  /\ plan = PlanDoc({}, EmptyObject)
  /\ local = EmptyObject
  /\ current = EmptyCurrent
  /\ vocbases = EmptyObject
  /\ actions = <<>>
  /\ report = <<>>
  /\ pc = "idle"
  /\ passNo = 0
  /\ queue = <<>>
  /\ log = <<>>
  /\ nodes = <<>>
  /\ runs = <<>>

SenderStep(t) ==
  \/ CheckState(t)
  \/ StartWritingLoad(t)
  \/ StartWritingCas(t)

WriteStep ==
  \/ FinishInitialization
  \/ PostedWrite
  \/ WriteCompletes
  \/ AsyncWriteCallbackLoad
  \/ AsyncWriteCallbackCas
  \/ AsyncWriteCallbackRest
  \/ IoStartWritingLoad
  \/ IoStartWritingCas

NextVst ==
  \/ \E t \in Senders : SendRequest(t)
  \/ \E t \in Senders : SenderStep(t)
  \/ WriteStep
  \/ PostedRead
  \/ ReadCompletes
  \/ TimeoutFires

SpecVst == InitVst /\ [][NextVst]_vars

(***************************************************************************)
(* The write loop                                                          *)
(***************************************************************************)
\* the write loops alive: an asyncWriteNextRequest posted and not yet run,
\* a write of the loop in flight, and asyncWriteCallback of such a write
\* until it has halted the loop
WriteLoops(c) ==
  c.postedWrites
  + Cardinality({w \in c.writing : w.loop})
  + (IF /\ ~c.io.auth
        /\ \/ c.io.pc \in {"awc_load", "awc_cas"}
           \/ c.io.pc = "awc_rest" /\ c.io.seen.write
     THEN 1 ELSE 0)

\* a step that posts asyncWriteNextRequest changes WRITE_LOOP_ACTIVE from
\* clear to set
PostedByCompareExchange ==
  conn'.postedWrites > conn.postedWrites
    => ~conn.loopState.write /\ conn'.loopState.write

\* startWriting posts asyncWriteNextRequest only for the caller whose
\* compare-exchange sets the flag
PostedOnlyByCompareExchange == [][PostedByCompareExchange]_vars

\* C35: under every interleaving of the threads calling sendRequest and of
\* the io thread at most one write loop of the connection is alive at a time.
C35_WriteLoopExclusion == WriteLoops(conn) <= 1

(***************************************************************************)
(* Progress of the write loop.  The io_context runs every handler that is  *)
(* posted and every completion handler of a write, and a thread that has   *)
(* entered sendRequest runs it to its end: these steps are weakly fair.    *)
(* Nothing obliges a client to call sendRequest, the server to answer or   *)
(* the timer to expire.                                                    *)
(***************************************************************************)
SpecVstFair ==
  /\ SpecVst
  /\ \A t \in Senders : WF_vars(SenderStep(t))
  /\ WF_vars(WriteStep)

\* the connection was given up: restartConnection or a failed initialisation
GivenUp == conn.restarted

Queued(m) == conn.threads[m].pc # "idle"

StrandedOnlyByCrash ==
  \A m \in Senders :
    Queued(m) ~> (m \in conn.written \/ GivenUp \/ conn.io.pc = "crashed")

(***************************************************************************)
(* The read loop, observed between the handlers of the io thread           *)
(***************************************************************************)
\* the read loop is active: the flag is set and a read is in flight or an
\* asyncReadSome is posted
ReadLoopActive(c) == c.loopState.read /\ (c.reading \/ c.postedReads > 0)

AwaitingResponse == conn.state = "Connected" /\ conn.messageStore # {}

ReadLoopCovers == (conn.io.pc = "idle" /\ AwaitingResponse) => ReadLoopActive(conn)

\* a step of a connected connection that clears READ_LOOP_ACTIVE leaves the
\* message store empty and the write loop inactive
StopsOnlyWhenIdle ==
  (conn.loopState.read /\ ~conn'.loopState.read /\ conn'.state = "Connected")
    => (conn'.messageStore = {} /\ ~conn'.loopState.write)

InvokeCalledAtMostOnce == \A m \in Items : conn.invoked[m] <= 1

(***************************************************************************)
(* AgencyVersions (arangod/Cluster/HeartbeatThread.h): the pair of the     *)
(* Plan and Current versions the heartbeat keeps.  The constructors copy   *)
(* their arguments, so the version numbers are drawn from a small range;   *)
(* log holds the arguments of the last construction and queue the object.  *)
(***************************************************************************)
MaxVersion == 10

Versions == 0..MaxVersion

\* AgencyVersions(uint64_t _plan, uint64_t _current)
AgencyVersions(_plan, _current) == [plan |-> _plan, current |-> _plan]

\* explicit AgencyVersions(const DBServerAgencySyncResult& result)
AgencyVersionsOfResult(result) ==
  [plan |-> result.planVersion, current |-> result.currentVersion]

InitVersions ==
  /\ queue = <<>>
  /\ log = <<>>
  /\ serverId = "A"
  /\ plan = PlanDoc({}, EmptyObject)
  /\ local = EmptyObject
  /\ current = EmptyCurrent
  /\ vocbases = EmptyObject
  /\ actions = <<>>
  /\ report = <<>>
  /\ pc = "idle"
  /\ passNo = 0
  /\ nodes = <<>>
  /\ runs = <<>>
  /\ conn = NoConnection

ConstructVersions ==
  /\ \E p \in Versions, c \in Versions :
       /\ log' = [from |-> "versions", plan |-> p, current |-> c]
       /\ queue' = AgencyVersions(p, c)
  /\ UNCHANGED <<plan, local, current, serverId, vocbases, actions, report, pc, passNo,
                 nodes, runs, conn>>

ConstructFromResult ==
  /\ \E p \in Versions, c \in Versions :
       /\ log' = [from |-> "result", plan |-> p, current |-> c]
       /\ queue' = AgencyVersionsOfResult([planVersion |-> p, currentVersion |-> c])
  /\ UNCHANGED <<plan, local, current, serverId, vocbases, actions, report, pc, passNo,
                 nodes, runs, conn>>

NextVersions == ConstructVersions \/ ConstructFromResult

SpecVersions == InitVersions /\ [][NextVersions]_vars

\* C39: the two-argument constructor stores its first argument in plan and
\* its second argument in current.
C39_ConstructorStoresBoth ==
  (log # <<>> /\ log.from = "versions")
    => (queue.plan = log.plan /\ queue.current = log.current)

=============================================================================
